---- MODULE Spec2Model ----
(***************************************************************************)
(* In-memory fixed-window rate limiter of src/lib/rate-limit.ts:           *)
(* rateLimitStore, the per-identifier promise chain rateLimitLocks, the    *)
(* lazy cleanup and the test reset hook.                                   *)
(*                                                                         *)
(* A call of checkRateLimit is a process with three steps: the synchronous *)
(* prologue up to `await prev` (lines 44-72), the resumption of the await  *)
(* with the body of the try block (lines 72-117), and the finally block    *)
(* (lines 118-125).  The continuation of an await is a job of the event    *)
(* loop: jobs run in the order they were queued, and the job of a call is  *)
(* queued when the promise it awaits is resolved.  The body reads          *)
(* Date.now() once and has no suspension point, so it is one action; the   *)
(* finally block is a step of its own so that a caller that holds its gate *)
(* is a state of the model, and steps of other calls may come between the  *)
(* two (the interleavings of worker threads, which include the event       *)
(* loop's).                                                                *)
(***************************************************************************)
EXTENDS Integers, Sequences, FiniteSets, TLC

(***************************************************************************)
(* Bounds of the model.                                                    *)
(***************************************************************************)
MaxCalls == 3
NumKeys == 2
StartTime == 1000000
MaxElapsed == 300002
MaxHeaderLen == 3

Calls == 1..MaxCalls
Keys == 1..NumKeys

\* rate-limit.ts line 77: 5 * 60 * 1000
CleanupIntervalMs == 5 * 60 * 1000

\* Time that passes between two readings of Date.now(): nothing, one
\* millisecond, the cleanup interval, one millisecond more.  Window lengths
\* a caller may configure: one millisecond, and one millisecond more than
\* the cleanup interval.  Quotas: one request, and the three requests of
\* RATE_LIMIT_CONFIG (line 171).
TickSteps == {0, 1, CleanupIntervalMs, CleanupIntervalMs + 1}
WindowChoices == {1, CleanupIntervalMs + 1}
QuotaChoices == {1, 3}

\* RateLimitConfig, lines 18-21
RateLimitConfig == [maxRequests : QuotaChoices, windowMs : WindowChoices]

VARIABLES
    clock,            \* the last value Date.now() returned
    env,              \* process.env: RATE_LIMIT_MODE, NODE_ENV
    siteConfig,       \* the configuration the call site passes
    rateLimitStore,   \* Map<string, RateLimitEntry>, line 11
    rateLimitLocks,   \* Map<string, Promise<void>>, line 36: key -> holder
    lastCleanup,      \* line 37
    pc,               \* position of each call
    identifier,       \* argument of each call
    config,           \* argument of each call
    prev,             \* line 64: the holder awaited (0: Promise.resolve())
    released,         \* line 120: the call's gate is resolved
    microtasks,       \* line 72: queued continuations of `await prev`
    result,           \* the RateLimitResult returned
    \* history of the run, read by the properties only
    log,              \* calls in the order their bodies ran
    nowAt,            \* Date.now() read by the body, line 74
    seen,             \* entry of the key when the body started (count 0: none)
    window,           \* call that created the entry the call was decided on
    windowOwner,      \* key -> call that created its current entry
    swept,            \* keys deleted by the call's cleanup loop
    cleanupRan,       \* the call ran the cleanup block, lines 78-81
    attempted,        \* calls that reached the Upstash adapter, line 49
    soloStore,        \* key -> entry, in the run with that key's calls only
    soloCleanup,      \* key -> lastCleanup of that run
    soloResult,       \* result of the call in that run
    resetSeen,        \* __testResetRateLimit has cleared state
    resetInFlight,    \* ... while a call was between line 64 and its return
    resetAt,          \* ... after that many bodies had run
    resetCalls,       \* ... and after that many calls had been made
    csrfEnv,          \* process.env: CSRF_PROTECTION, CSRF_PROTECTION_TOKEN
    method,           \* route handler that is running for each request ("": none)
    response,         \* the last NextResponse a handler returned
    database,         \* the prisma operations the handler of each request has awaited
    request,          \* headers of the request given to getClientIP
    clientIP          \* what getClientIP returned (empty: not called)

vars == <<clock, env, siteConfig, rateLimitStore, rateLimitLocks, lastCleanup,
          pc, identifier, config, prev, released, microtasks, result,
          log, nowAt, seen, window, windowOwner, swept, cleanupRan, attempted,
          soloStore, soloCleanup, soloResult, resetSeen, resetInFlight,
          resetAt, resetCalls, csrfEnv, method, response, database, request,
          clientIP>>

(***************************************************************************)
(* Map<K, V> as a function whose domain is the set of keys present.        *)
(***************************************************************************)
EmptyMap == [k \in {} |-> 0]
MapHas(m, k) == k \in DOMAIN m
MapSet(m, k, v) == [x \in (DOMAIN m) \cup {k} |-> IF x = k THEN v ELSE m[x]]
MapDelete(m, k) == [x \in (DOMAIN m) \ {k} |-> m[x]]

NoEntry == [count |-> 0, resetTime |-> 0]
NoResult == [success |-> FALSE, remaining |-> 0, reset |-> 0]
NoConfig == [maxRequests |-> 0, windowMs |-> 0]
NoResponse == [call |-> 0, method |-> "", status |-> 0, headers |-> EmptyMap]

\* A config argument that is not an object (undefined, from a caller that
\* is not type-checked): reading config.windowMs (line 90) or
\* config.maxRequests (line 101) throws a TypeError.
UndefinedConfig == [undefined |-> TRUE]

\* (a limiter that validates its config and raises on a quota or a window
\* below 1)
ThrowsOnInvalid(cfg) ==
    IF cfg = UndefinedConfig THEN TRUE
    ELSE cfg.maxRequests < 1 \/ cfg.windowMs < 1

\* lines 90 and 101: the reads of config.windowMs and config.maxRequests
\* throw when config is not an object, and only then: with numbers of any
\* sign the arithmetic and the comparisons of lines 84-117 do not throw
Throws(cfg) == cfg = UndefinedConfig

\* (a comparison of the flag as it is written)
ToUpperCaseIdentity(s) == s

\* line 44: (process.env.RATE_LIMIT_MODE || 'INMEM').toUpperCase()
ToUpperCase(s) ==
    CASE s = "upstash" -> "UPSTASH"
      [] s = "Upstash" -> "UPSTASH"
      [] s = "inmem" -> "INMEM"
      [] s = "redis" -> "REDIS"
      [] OTHER -> s

\* (a catch block that never rethrows)
IsProductionNever(e) == FALSE

\* (a catch block that always rethrows)
IsProductionAlways(e) == TRUE

\* line 53: process.env.NODE_ENV === 'production'
IsProduction(e) == e.NODE_ENV = "production"

Mode(e) == ToUpperCase(IF e.RATE_LIMIT_MODE = "" THEN "INMEM" ELSE e.RATE_LIMIT_MODE)

(***************************************************************************)
(* The promise chain.  The holder of call c is prev.then(() => gate)       *)
(* (line 68): it is resolved once prev is resolved and the gate of c is    *)
(* resolved.  Holder 0 stands for Promise.resolve().                       *)
(***************************************************************************)
\* (an await that does not wait)
HolderNoWait(h) == TRUE

\* (a gate resolved when the body returns, before the finally block)
HolderResolvedOnReturn(h) == h = 0 \/ pc[h] \in {"finally", "done"}

RECURSIVE HolderResolved(_)
HolderResolved(h) ==
    IF h = 0 THEN TRUE
    ELSE released[h] /\ HolderResolved(prev[h])

\* (one chain for all identifiers)
LockTailGlobal(locks, k) ==
    IF DOMAIN locks # {} THEN locks[CHOOSE x \in DOMAIN locks : TRUE] ELSE 0

\* line 64: rateLimitLocks.get(identifier) || Promise.resolve()
LockTail(locks, k) == IF MapHas(locks, k) THEN locks[k] ELSE 0

\* (a finally block that deletes the lock entry whoever holds the tail)
ReleaseCleanupAlways(locks, k, holder) == MapDelete(locks, k)

\* (a finally block that never deletes the lock entry)
ReleaseCleanupNever(locks, k, holder) == locks

\* (a cleanup that deletes the chain of another caller)
ReleaseCleanupOfOthers(locks, k, holder) ==
    IF MapHas(locks, k) /\ locks[k] # holder THEN MapDelete(locks, k) ELSE locks

\* lines 122-124: delete the lock entry if it is still this call's holder
ReleaseCleanup(locks, k, holder) ==
    IF MapHas(locks, k) /\ locks[k] = holder THEN MapDelete(locks, k) ELSE locks

(***************************************************************************)
(* Body of the try block, lines 74-117.                                    *)
(***************************************************************************)
\* (an expiry test that is one millisecond late)
ExpiredLate(now, entry) == now > entry.resetTime + 1

\* (a window that is over as soon as it has started)
ExpiredAlways(now, entry) == TRUE

\* line 80 and line 87: now > entry.resetTime
Expired(now, entry) == now > entry.resetTime

\* (a cleanup loop that deletes every entry)
SweepAll(store, now) == EmptyMap

\* (a cleanup loop that also deletes the entries whose reset time is now)
SweepAtResetTime(store, now) ==
    [k \in {x \in DOMAIN store : now < store[x].resetTime} |-> store[k]]

\* lines 79-81: the cleanup loop
Sweep(store, now) ==
    [k \in {x \in DOMAIN store : ~Expired(now, store[x])} |-> store[k]]

\* (a cleanup that is due one millisecond early)
CleanupDueEarly(now, last) == now - last >= CleanupIntervalMs

\* line 77
CleanupDue(now, last) == now - last > CleanupIntervalMs

\* lines 77-82
LazyCleanup(store, last, now) ==
    IF CleanupDue(now, last)
    THEN [store |-> Sweep(store, now), lastCleanup |-> now]
    ELSE [store |-> store, lastCleanup |-> last]

\* line 87
StartsWindow(store, k, now) == ~MapHas(store, k) \/ Expired(now, store[k])

\* (a limit test that is off by one)
LimitExceededOffByOne(entry, cfg) == entry.count > cfg.maxRequests

\* (a limit test against the quota of the newsletter route, whatever the
\* config of the call)
LimitExceededAtThree(entry, cfg) == entry.count >= 3

\* line 101
LimitExceeded(entry, cfg) == entry.count >= cfg.maxRequests

\* (a fresh window that does not count the call that opens it)
FreshWindowFromZero(store, k, cfg, now) ==
    [store |-> MapSet(store, k, [count |-> 0, resetTime |-> now + cfg.windowMs]),
     result |-> [success |-> TRUE,
                 remaining |-> cfg.maxRequests - 1,
                 reset |-> now + cfg.windowMs]]

\* lines 88-97: no entry, or an expired one: a fresh window
FreshWindow(store, k, cfg, now) ==
    [store |-> MapSet(store, k, [count |-> 1, resetTime |-> now + cfg.windowMs]),
     result |-> [success |-> TRUE,
                 remaining |-> cfg.maxRequests - 1,
                 reset |-> now + cfg.windowMs]]

\* (a rejection that returns a new reset time)
RejectedNewReset(store, k, cfg, now) ==
    [store |-> store,
     result |-> [success |-> FALSE, remaining |-> 0, reset |-> now + cfg.windowMs]]

\* (a rejection that counts the call)
RejectedCounts(store, k, cfg, now) ==
    [store |-> MapSet(store, k, [count |-> store[k].count + 1,
                                 resetTime |-> store[k].resetTime]),
     result |-> [success |-> FALSE, remaining |-> 0, reset |-> store[k].resetTime]]

\* (a rejection that computes remaining from the counter)
RejectedComputesRemaining(store, k, cfg, now) ==
    [store |-> store,
     result |-> [success |-> FALSE,
                 remaining |-> cfg.maxRequests - store[k].count,
                 reset |-> store[k].resetTime]]

\* lines 101-107: the limit is exceeded
Rejected(store, k, cfg, now) ==
    [store |-> store,
     result |-> [success |-> FALSE, remaining |-> 0, reset |-> store[k].resetTime]]

\* (an increment that extends the window)
IncrementExtendsWindow(store, k, cfg) ==
    [store |-> MapSet(store, k, [count |-> store[k].count + 1,
                                 resetTime |-> store[k].resetTime + cfg.windowMs]),
     result |-> [success |-> TRUE,
                 remaining |-> cfg.maxRequests - (store[k].count + 1),
                 reset |-> store[k].resetTime + cfg.windowMs]]

\* (an increment that is not written back)
IncrementLost(store, k, cfg) ==
    [store |-> store,
     result |-> [success |-> TRUE,
                 remaining |-> cfg.maxRequests - (store[k].count + 1),
                 reset |-> store[k].resetTime]]

\* (remaining computed from the count before the increment)
IncrementStaleRemaining(store, k, cfg) ==
    [store |-> MapSet(store, k, [count |-> store[k].count + 1,
                                 resetTime |-> store[k].resetTime]),
     result |-> [success |-> TRUE,
                 remaining |-> cfg.maxRequests - store[k].count,
                 reset |-> store[k].resetTime]]

\* lines 109-117: increment the counter
Increment(store, k, cfg) ==
    LET newCount == store[k].count + 1
    IN  [store |-> MapSet(store, k, [count |-> newCount,
                                     resetTime |-> store[k].resetTime]),
         result |-> [success |-> TRUE,
                     remaining |-> cfg.maxRequests - newCount,
                     reset |-> store[k].resetTime]]

\* lines 84-117: the decision and the write
Decide(store, k, cfg, now) ==
    IF StartsWindow(store, k, now) THEN FreshWindow(store, k, cfg, now)
    ELSE IF LimitExceeded(store[k], cfg) THEN Rejected(store, k, cfg, now)
    ELSE Increment(store, k, cfg)

\* lines 74-117
Body(store, last, k, cfg, now) ==
    LET cleaned == LazyCleanup(store, last, now)
        decided == Decide(cleaned.store, k, cfg, now)
    IN  [store |-> decided.store,
         lastCleanup |-> cleaned.lastCleanup,
         result |-> decided.result,
         fresh |-> StartsWindow(cleaned.store, k, now),
         swept |-> (DOMAIN store) \ (DOMAIN cleaned.store)]

(***************************************************************************)
(* Initial state: the module has just been loaded.                         *)
(***************************************************************************)
InitWith(environments, configs, requests) ==
    /\ request \in requests
    /\ clientIP = << >>
    /\ clock = StartTime
    /\ env \in environments
    /\ siteConfig \in configs
    /\ rateLimitStore = EmptyMap
    /\ rateLimitLocks = EmptyMap
    /\ lastCleanup = 0
    /\ pc = [c \in Calls |-> "idle"]
    /\ identifier = [c \in Calls |-> 0]
    /\ config = [c \in Calls |-> NoConfig]
    /\ prev = [c \in Calls |-> 0]
    /\ released = [c \in Calls |-> FALSE]
    /\ microtasks = << >>
    /\ result = [c \in Calls |-> NoResult]
    /\ log = << >>
    /\ nowAt = [c \in Calls |-> 0]
    /\ seen = [c \in Calls |-> NoEntry]
    /\ window = [c \in Calls |-> 0]
    /\ windowOwner = EmptyMap
    /\ swept = [c \in Calls |-> {}]
    /\ cleanupRan = [c \in Calls |-> FALSE]
    /\ attempted = {}
    /\ soloStore = EmptyMap
    /\ soloCleanup = [k \in Keys |-> 0]
    /\ soloResult = [c \in Calls |-> NoResult]
    /\ resetSeen = FALSE
    /\ resetInFlight = FALSE
    /\ resetAt = 0
    /\ resetCalls = 0
    /\ csrfEnv = EmptyMap
    /\ method = [c \in Calls |-> ""]
    /\ response = NoResponse
    /\ database = [c \in Calls |-> << >>]

Init == InitWith({[RATE_LIMIT_MODE |-> "", NODE_ENV |-> "test"]}, RateLimitConfig, {EmptyMap})

history == <<log, nowAt, seen, window, windowOwner, swept, cleanupRan, attempted,
             soloStore, soloCleanup, soloResult>>
resetFlags == <<resetSeen, resetInFlight, resetAt, resetCalls>>
routeVars == <<csrfEnv, method, response, database>>

(***************************************************************************)
(* checkRateLimit, lines 39-69: the in-memory path up to `await prev`.     *)
(* Calls are numbered in the order they are made, and identifiers in the   *)
(* order they are first used (identifiers are interchangeable).            *)
(***************************************************************************)
EnterLocalPath(c, k, cfg) ==
    /\ pc[c] = "idle"
    /\ \A b \in Calls : b < c => pc[b] # "idle"
    /\ \A j \in Keys : j < k => \E b \in Calls : b < c /\ identifier[b] = j
    /\ Mode(env) # "UPSTASH"
    /\ identifier' = [identifier EXCEPT ![c] = k]
    /\ config' = [config EXCEPT ![c] = cfg]
    /\ prev' = [prev EXCEPT ![c] = LockTail(rateLimitLocks, k)]
    /\ rateLimitLocks' = MapSet(rateLimitLocks, k, c)
    /\ microtasks' = IF HolderResolved(LockTail(rateLimitLocks, k))
                     THEN Append(microtasks, c)
                     ELSE microtasks
    /\ pc' = [pc EXCEPT ![c] = "awaiting"]
    /\ UNCHANGED <<request, clientIP, clock, env, siteConfig, rateLimitStore, lastCleanup,
                   released, result, history, resetFlags>>

checkRateLimit(c, k, cfg) ==
    /\ EnterLocalPath(c, k, cfg)
    /\ UNCHANGED routeVars

Queued(c) == \E i \in 1..Len(microtasks) : microtasks[i] = c

\* lines 68 and 72: the holder a call awaits is resolved, and the
\* continuation of the call is queued
holderResolves(c) ==
    /\ pc[c] = "awaiting"
    /\ ~Queued(c)
    /\ HolderResolved(prev[c])
    /\ microtasks' = Append(microtasks, c)
    /\ UNCHANGED <<routeVars, request, clientIP, clock, env, siteConfig, rateLimitStore, rateLimitLocks,
                   lastCleanup, pc, identifier, config, prev, released, result,
                   history, resetFlags>>

\* The entry of key k in the run that has the calls of k only.
SoloView(k) == IF MapHas(soloStore, k) THEN MapSet(EmptyMap, k, soloStore[k]) ELSE EmptyMap

\* lines 72-117: the continuation of `await prev` runs the body; d is the
\* time passed since Date.now() was last read
tryBody(c, d) ==
    /\ pc[c] = "awaiting"
    /\ ~Throws(config[c])
    /\ microtasks # << >> /\ Head(microtasks) = c
    /\ microtasks' = Tail(microtasks)
    /\ clock + d <= StartTime + MaxElapsed
    /\ clock' = clock + d
    /\ LET k == identifier[c]
           now == clock + d
           out == Body(rateLimitStore, lastCleanup, k, config[c], now)
           solo == Body(SoloView(k), soloCleanup[k], k, config[c], now)
       IN  /\ rateLimitStore' = out.store
           /\ lastCleanup' = out.lastCleanup
           /\ result' = [result EXCEPT ![c] = out.result]
           /\ log' = Append(log, c)
           /\ nowAt' = [nowAt EXCEPT ![c] = now]
           /\ seen' = [seen EXCEPT ![c] =
                          IF MapHas(rateLimitStore, k) THEN rateLimitStore[k] ELSE NoEntry]
           /\ windowOwner' = [x \in DOMAIN out.store |->
                                 IF x = k /\ out.fresh THEN c ELSE windowOwner[x]]
           /\ window' = [window EXCEPT ![c] = IF out.fresh THEN c ELSE windowOwner[k]]
           /\ swept' = [swept EXCEPT ![c] = out.swept]
           /\ cleanupRan' = [cleanupRan EXCEPT ![c] = CleanupDue(now, lastCleanup)]
           /\ soloStore' = IF MapHas(solo.store, k)
                           THEN MapSet(soloStore, k, solo.store[k])
                           ELSE MapDelete(soloStore, k)
           /\ soloCleanup' = [soloCleanup EXCEPT ![k] = solo.lastCleanup]
           /\ soloResult' = [soloResult EXCEPT ![c] = solo.result]
    /\ pc' = [pc EXCEPT ![c] = "finally"]
    /\ UNCHANGED <<routeVars, request, clientIP, env, siteConfig, rateLimitLocks, identifier, config,
                   prev, released, attempted, resetFlags>>

\* lines 72-101 with a config that is not an object: the cleanup runs, and
\* the first read of a property of config throws, before any write of the
\* entry; control passes to the finally block and the promise of the call
\* is rejected after it
tryBodyThrows(c, d) ==
    /\ pc[c] = "awaiting"
    /\ Throws(config[c])
    /\ microtasks # << >> /\ Head(microtasks) = c
    /\ microtasks' = Tail(microtasks)
    /\ clock + d <= StartTime + MaxElapsed
    /\ clock' = clock + d
    /\ LET k == identifier[c]
           now == clock + d
           out == LazyCleanup(rateLimitStore, lastCleanup, now)
           solo == LazyCleanup(SoloView(k), soloCleanup[k], now)
       IN  /\ rateLimitStore' = out.store
           /\ lastCleanup' = out.lastCleanup
           /\ log' = Append(log, c)
           /\ nowAt' = [nowAt EXCEPT ![c] = now]
           /\ seen' = [seen EXCEPT ![c] =
                          IF MapHas(rateLimitStore, k) THEN rateLimitStore[k] ELSE NoEntry]
           /\ windowOwner' = [x \in DOMAIN out.store |-> windowOwner[x]]
           /\ swept' = [swept EXCEPT ![c] = (DOMAIN rateLimitStore) \ (DOMAIN out.store)]
           /\ cleanupRan' = [cleanupRan EXCEPT ![c] = CleanupDue(now, lastCleanup)]
           /\ soloStore' = IF MapHas(solo.store, k) THEN soloStore
                           ELSE MapDelete(soloStore, k)
           /\ soloCleanup' = [soloCleanup EXCEPT ![k] = solo.lastCleanup]
    /\ pc' = [pc EXCEPT ![c] = "finally"]
    /\ UNCHANGED <<routeVars, request, clientIP, env, siteConfig, rateLimitLocks, identifier, config,
                   prev, released, result, window, soloResult, attempted,
                   resetFlags>>

\* (a release placed after the body instead of in a finally block)
ReleaseSkippedOnThrow(rel, c) ==
    IF config[c] = UndefinedConfig THEN rel ELSE [rel EXCEPT ![c] = TRUE]

\* (a gate that is never released)
ReleaseNever(rel, c) == rel

\* line 120: release!()
Release(rel, c) == [rel EXCEPT ![c] = TRUE]

\* lines 118-125
finallyRelease(c) ==
    /\ pc[c] = "finally"
    /\ released' = Release(released, c)
    /\ rateLimitLocks' = ReleaseCleanup(rateLimitLocks, identifier[c], c)
    /\ pc' = [pc EXCEPT ![c] = "done"]
    /\ UNCHANGED <<routeVars, request, clientIP, clock, env, siteConfig, rateLimitStore, lastCleanup,
                   identifier, config, prev, microtasks, result, history,
                   resetFlags>>

InFlight(c) == pc[c] \in {"awaiting", "finally"}

\* (a reset that leaves the windows in place)
StoreKeptOnReset(store) == store

\* line 130: rateLimitStore.clear()
StoreAfterReset(store) == EmptyMap

\* (a reset that leaves the pending chains in place)
LocksKeptOnReset(locks) == locks

\* line 131: rateLimitLocks.clear()
LocksAfterReset(locks) == EmptyMap

\* __testResetRateLimit, lines 129-133
\* A reset that finds nothing to clear changes no state and is a stutter;
\* a run of the model invokes the hook once.
testResetRateLimit ==
    /\ ~resetSeen
    /\ rateLimitStore # EmptyMap \/ rateLimitLocks # EmptyMap \/ lastCleanup # 0
    /\ rateLimitStore' = StoreAfterReset(rateLimitStore)
    /\ rateLimitLocks' = LocksAfterReset(rateLimitLocks)
    /\ lastCleanup' = 0
    /\ windowOwner' = [x \in DOMAIN StoreAfterReset(rateLimitStore) |-> windowOwner[x]]
    /\ soloStore' = EmptyMap
    /\ soloCleanup' = [k \in Keys |-> 0]
    /\ resetSeen' = TRUE
    /\ resetInFlight' = (resetInFlight \/ \E c \in Calls : InFlight(c))
    /\ resetAt' = Len(log)
    /\ resetCalls' = Cardinality({c \in Calls : pc[c] # "idle"})
    /\ UNCHANGED <<routeVars, request, clientIP, clock, env, siteConfig, pc, identifier, config, prev,
                   released, microtasks, result, log, nowAt, seen, window,
                   swept, cleanupRan, attempted, soloResult>>

Next ==
    \/ \E c \in Calls, k \in Keys : checkRateLimit(c, k, siteConfig)
    \/ \E c \in Calls : holderResolves(c)
    \/ \E c \in Calls, d \in TickSteps : tryBody(c, d)
    \/ \E c \in Calls : finallyRelease(c)
    \/ testResetRateLimit

Spec == Init /\ [][Next]_vars

(***************************************************************************)
(* The per-identifier chain under the event loop, with the configuration   *)
(* of the newsletter routes and with callers that may pass a config that   *)
(* is not an object, so that the body of the try block throws.  No time    *)
(* passes between two readings of Date.now(): a call waits on a promise,   *)
(* never on the clock.                                                     *)
(***************************************************************************)
\* RATE_LIMIT_CONFIG, lines 170-173
RATE_LIMIT_CONFIG == [maxRequests |-> 3, windowMs |-> 60 * 60 * 1000]

InitThrow == InitWith({[RATE_LIMIT_MODE |-> "", NODE_ENV |-> "test"]}, {RATE_LIMIT_CONFIG}, {EmptyMap})

NextThrow ==
    \/ \E c \in Calls, k \in Keys, cfg \in {siteConfig, UndefinedConfig} :
          checkRateLimit(c, k, cfg)
    \/ \E c \in Calls : holderResolves(c)
    \/ \E c \in Calls : tryBody(c, 0)
    \/ \E c \in Calls : tryBodyThrows(c, 0)
    \/ \E c \in Calls : finallyRelease(c)
    \/ testResetRateLimit

\* The event loop runs every job that is queued: a resolved promise queues
\* the continuations that await it, and a queued continuation runs to its
\* end, finally block included.
EventLoopFairness ==
    \A c \in Calls :
        /\ WF_vars(holderResolves(c))
        /\ WF_vars(tryBody(c, 0) \/ tryBodyThrows(c, 0))
        /\ WF_vars(finallyRelease(c))

FairSpecThrow == InitThrow /\ [][NextThrow]_vars /\ EventLoopFairness

(***************************************************************************)
(* Backend selection, lines 44-61.  The module ./rate-limit-upstash is     *)
(* outside this source: the dynamic import or upstashLimit either fails,   *)
(* or upstashLimit returns a RateLimitResult of its own.                   *)
(***************************************************************************)
\* values of RATE_LIMIT_MODE ("": unset or empty, both falsy at line 44)
ModeFlags == {"", "inmem", "upstash", "Upstash", "UPSTASH", "redis"}
NodeEnvs == {"production", "development"}
Environments == [RATE_LIMIT_MODE : ModeFlags, NODE_ENV : NodeEnvs]

\* results the external limiter may return
UpstashResults ==
    {[success |-> TRUE, remaining |-> 2, reset |-> StartTime + 1],
     [success |-> FALSE, remaining |-> 0, reset |-> StartTime + 1]}

\* lines 44-50: the mode is UPSTASH; the call is suspended at the import
\* and at upstashLimit
checkRateLimitUpstash(c, k, cfg) ==
    /\ pc[c] = "idle"
    /\ \A b \in Calls : b < c => pc[b] # "idle"
    /\ \A j \in Keys : j < k => \E b \in Calls : b < c /\ identifier[b] = j
    /\ Mode(env) = "UPSTASH"
    /\ identifier' = [identifier EXCEPT ![c] = k]
    /\ config' = [config EXCEPT ![c] = cfg]
    /\ attempted' = attempted \cup {c}
    /\ pc' = [pc EXCEPT ![c] = "upstash"]
    /\ UNCHANGED <<routeVars, request, clientIP, clock, env, siteConfig, rateLimitStore, rateLimitLocks,
                   lastCleanup, prev, released, microtasks, result,
                   log, nowAt, seen, window, windowOwner, swept, cleanupRan,
                   soloStore, soloCleanup, soloResult, resetFlags>>

\* (an external result that is also counted in the store of the process)
upstashReturnsCounted(c, r) ==
    /\ pc[c] = "upstash"
    /\ result' = [result EXCEPT ![c] = r]
    /\ rateLimitStore' = MapSet(rateLimitStore, identifier[c],
                                [count |-> 1, resetTime |-> r.reset])
    /\ pc' = [pc EXCEPT ![c] = "done"]
    /\ UNCHANGED <<routeVars, request, clientIP, clock, env, siteConfig, rateLimitLocks,
                   lastCleanup, identifier, config, prev, released, microtasks,
                   history, resetFlags>>

\* line 50: upstashLimit returns r, and so does checkRateLimit
upstashReturns(c, r) ==
    /\ pc[c] = "upstash"
    /\ result' = [result EXCEPT ![c] = r]
    /\ pc' = [pc EXCEPT ![c] = "done"]
    /\ UNCHANGED <<routeVars, request, clientIP, clock, env, siteConfig, rateLimitStore, rateLimitLocks,
                   lastCleanup, identifier, config, prev, released, microtasks,
                   history, resetFlags>>

\* lines 51-69: the import or upstashLimit fails.  In production the catch
\* block rethrows; otherwise control falls through to lines 64-69
upstashFails(c) ==
    /\ pc[c] = "upstash"
    /\ IF IsProduction(env)
       THEN /\ pc' = [pc EXCEPT ![c] = "threw"]
            /\ UNCHANGED <<prev, rateLimitLocks, microtasks>>
       ELSE /\ prev' = [prev EXCEPT ![c] = LockTail(rateLimitLocks, identifier[c])]
            /\ rateLimitLocks' = MapSet(rateLimitLocks, identifier[c], c)
            /\ microtasks' = IF HolderResolved(LockTail(rateLimitLocks, identifier[c]))
                             THEN Append(microtasks, c)
                             ELSE microtasks
            /\ pc' = [pc EXCEPT ![c] = "awaiting"]
    /\ UNCHANGED <<routeVars, request, clientIP, clock, env, siteConfig, rateLimitStore, lastCleanup,
                   identifier, config, released, result, history, resetFlags>>

\* a quota of two requests, so that two callers are admitted and a third
\* is rejected
BackendConfigs == {[maxRequests |-> 2, windowMs |-> CleanupIntervalMs + 1]}

\* time between two readings of Date.now(): nothing, or more than the
\* cleanup interval
LongTickSteps == {0, CleanupIntervalMs + 1}

InitBackend == InitWith(Environments, BackendConfigs, {EmptyMap})

NextBackend ==
    \/ \E c \in Calls, k \in Keys : checkRateLimit(c, k, siteConfig)
    \/ \E c \in Calls, k \in Keys : checkRateLimitUpstash(c, k, siteConfig)
    \/ \E c \in Calls, r \in UpstashResults : upstashReturns(c, r)
    \/ \E c \in Calls : upstashFails(c)
    \/ \E c \in Calls : holderResolves(c)
    \/ \E c \in Calls, d \in LongTickSteps : tryBody(c, d)
    \/ \E c \in Calls : finallyRelease(c)

SpecBackend == InitBackend /\ [][NextBackend]_vars

(***************************************************************************)
(* getClientIP, lines 144-161.  A string is a sequence of characters; the  *)
(* headers of a request are a map from names to values, and                *)
(* request.headers.get(name) is null for a name that is not in the map.    *)
(***************************************************************************)
Localhost == <<"1", "2", "7", ".", "0", ".", "0", ".", "1">>

\* `if (value)`: null and the empty string are falsy
Truthy(headers, name) == MapHas(headers, name) /\ headers[name] # << >>

\* String.prototype.split(','), line 155
RECURSIVE Split(_)
Split(str) ==
    IF \E i \in 1..Len(str) : str[i] = ","
    THEN LET i == CHOOSE j \in 1..Len(str) :
                     str[j] = "," /\ \A x \in 1..(j - 1) : str[x] # ","
         IN  <<SubSeq(str, 1, i - 1)>> \o Split(SubSeq(str, i + 1, Len(str)))
    ELSE <<str>>

\* (a trim that leaves the string as it is)
TrimNone(str) == str

\* String.prototype.trim(), line 155
RECURSIVE Trim(_)
Trim(str) ==
    IF str = << >> THEN str
    ELSE IF Head(str) = " " THEN Trim(Tail(str))
    ELSE IF str[Len(str)] = " " THEN Trim(SubSeq(str, 1, Len(str) - 1))
    ELSE str

IsNonEmpty(str) == str # << >>

\* line 155: forwarded.split(',').map(p => p.trim()).filter(Boolean)
Parts(forwarded) ==
    LET split == Split(forwarded)
    IN  SelectSeq([i \in 1..Len(split) |-> Trim(split[i])], IsNonEmpty)

\* (x-real-ip consulted before cf-connecting-ip)
getClientIPRealFirst(headers) ==
    IF Truthy(headers, "x-real-ip") THEN headers["x-real-ip"]
    ELSE IF Truthy(headers, "cf-connecting-ip") THEN headers["cf-connecting-ip"]
    ELSE IF Truthy(headers, "x-forwarded-for") /\ Len(Parts(headers["x-forwarded-for"])) > 0
    THEN Parts(headers["x-forwarded-for"])[1]
    ELSE Localhost

\* lines 144-161
getClientIP(headers) ==
    IF Truthy(headers, "cf-connecting-ip") THEN headers["cf-connecting-ip"]
    ELSE IF Truthy(headers, "x-real-ip") THEN headers["x-real-ip"]
    ELSE IF Truthy(headers, "x-forwarded-for") /\ Len(Parts(headers["x-forwarded-for"])) > 0
    THEN Parts(headers["x-forwarded-for"])[1]
    ELSE Localhost

\* Values of x-forwarded-for: strings of at most MaxHeaderLen characters
\* out of a letter, the space and the comma, without leading or trailing
\* space (Headers strips them when a value is set).
ForwardedChars == {"c", " ", ","}
ForwardedValues ==
    {str \in UNION {[1..n -> ForwardedChars] : n \in 0..MaxHeaderLen} :
        str = << >> \/ (str[1] # " " /\ str[Len(str)] # " ")}

\* a header is absent (no value) or present with one value, which may be
\* the empty string
Optional(values) == {<< >>} \cup {<<v>> : v \in values}

HeadersOf(cf, real, forwarded) ==
    LET given == [name \in {"cf-connecting-ip", "x-real-ip", "x-forwarded-for"} |->
                     CASE name = "cf-connecting-ip" -> cf
                       [] name = "x-real-ip" -> real
                       [] OTHER -> forwarded]
    IN  [name \in {x \in DOMAIN given : given[x] # << >>} |-> given[name][1]]

Requests ==
    {HeadersOf(cf, real, forwarded) :
        cf \in Optional({<< >>, <<"a">>}),
        real \in Optional({<< >>, <<"b">>}),
        forwarded \in Optional(ForwardedValues)}

InitIP ==
    InitWith({[RATE_LIMIT_MODE |-> "", NODE_ENV |-> "test"]}, {RATE_LIMIT_CONFIG}, Requests)

\* a route handler calls getClientIP(request), lines 215, 321, 399
callGetClientIP ==
    /\ clientIP = << >>
    /\ clientIP' = getClientIP(request)
    /\ UNCHANGED <<routeVars, request, clock, env, siteConfig, rateLimitStore,
                   rateLimitLocks, lastCleanup, pc, identifier, config, prev, released,
                   microtasks, result, history, resetFlags>>

NextIP == callGetClientIP

SpecIP == InitIP /\ [][NextIP]_vars

(***************************************************************************)
(* Vocabulary of the properties.                                           *)
(***************************************************************************)
\* the body of call c has run: its result is computed
Decided(c) == pc[c] \in {"finally", "done"}

\* position of call c in the order of decisions
Pos(c) == CHOOSE i \in 1..Len(log) : log[i] = c

\* the calls decided on the window entry that call w created
WindowCalls(w) == {c \in Calls : Decided(c) /\ window[c] = w}

\* call c is the Rank(c)-th call decided on its window entry
Rank(c) == Cardinality({b \in WindowCalls(window[c]) : Pos(b) <= Pos(c)})

Admitted(w) == {c \in WindowCalls(w) : result[c].success}

\* calls a, b, c were made on one key while the earlier ones were in flight
Queued3(a, b, c) == prev[b] = a /\ prev[c] = b

\* the step in which the body of call c runs and rejects
Rejects(c) == pc[c] = "awaiting" /\ pc'[c] = "finally" /\ ~result'[c].success

(***************************************************************************)
(* C1.  In one window of a key (one entry of the store, from the call that *)
(* creates it until it expires), under every interleaving of concurrent    *)
(* calls with one configuration, at most maxRequests calls return          *)
(* success = true.                                                         *)
(***************************************************************************)
C1_AtMostMaxAdmissions ==
    \A w \in Calls : Cardinality(Admitted(w)) <= siteConfig.maxRequests

\* three calls queued on one key, decided on one window: the quota is used
\* up and the last one is rejected
C1_Witness ==
    \E a, b, c \in Calls :
        /\ Queued3(a, b, c)
        /\ {a, b, c} \subseteq WindowCalls(a)
        /\ Cardinality(Admitted(a)) = siteConfig.maxRequests
        /\ ~result[c].success

(***************************************************************************)
(* C2.  Starting from no window for a key, the i-th call decided on the    *)
(* window, for i <= maxRequests, is admitted and returns                   *)
(* remaining = maxRequests - i.                                            *)
(***************************************************************************)
C2_AdmittedCountdown ==
    \A c \in Calls :
        (Decided(c) /\ Rank(c) <= config[c].maxRequests) =>
            /\ result[c].success
            /\ result[c].remaining = config[c].maxRequests - Rank(c)

\* a window whose last admissible call has been decided: remaining = 0
C2_Witness ==
    \E c \in Calls :
        /\ Decided(c)
        /\ Rank(c) = 3
        /\ Rank(c) = config[c].maxRequests
        /\ result[c].remaining = 0

(***************************************************************************)
(* C3.  Once maxRequests calls have been admitted in a window, every       *)
(* further call decided on that window is rejected: success = false,       *)
(* remaining = 0, and reset equal to the reset the first call of the       *)
(* window returned.                                                        *)
(***************************************************************************)
C3_RejectedAfterQuota ==
    \A c \in Calls :
        (Decided(c) /\ Rank(c) > config[c].maxRequests) =>
            /\ ~result[c].success
            /\ result[c].remaining = 0
            /\ result[c].reset = result[window[c]].reset

\* a call beyond the quota, decided later than the window was created
C3_Witness ==
    \E c \in Calls :
        /\ Decided(c)
        /\ Rank(c) > config[c].maxRequests
        /\ nowAt[c] > nowAt[window[c]]

(***************************************************************************)
(* C4.  A rejected call leaves the Window Store unchanged.  As stated,     *)
(* for the whole store:                                                    *)
(***************************************************************************)
C4_RejectedLeavesStoreUnchanged ==
    [][\A c \in Calls : Rejects(c) => rateLimitStore' = rateLimitStore]_vars

(***************************************************************************)
(* C4, amended.  A rejected call leaves the entry of its own key unchanged *)
(* (same count, same resetTime); the only change it makes to the store is  *)
(* the lazy cleanup's deletion of expired entries of other keys.           *)
(***************************************************************************)
C4_RejectedLeavesOwnEntryUnchanged ==
    [][\A c \in Calls : Rejects(c) =>
          /\ MapHas(rateLimitStore, identifier[c])
          /\ MapHas(rateLimitStore', identifier[c])
          /\ rateLimitStore'[identifier[c]] = rateLimitStore[identifier[c]]
          /\ DOMAIN rateLimitStore' \subseteq DOMAIN rateLimitStore
          /\ \A k \in DOMAIN rateLimitStore :
                IF MapHas(rateLimitStore', k)
                THEN rateLimitStore'[k] = rateLimitStore[k]
                ELSE rateLimitStore[k].resetTime < clock'
      ]_vars

\* a rejected call whose cleanup deleted the entry of another key
C4_Witness ==
    \E c \in Calls :
        /\ Decided(c)
        /\ ~result[c].success
        /\ swept[c] # {}

(***************************************************************************)
(* C5.  A call that runs at a time now with resetAt <= now for the entry   *)
(* of its key (now = resetAt included) replaces the entry by a fresh       *)
(* window and returns success = true, remaining = maxRequests - 1,         *)
(* reset = now + windowMs.                                                 *)
(***************************************************************************)
C5_ExpiredAtResetTime ==
    \A c \in Calls :
        (Decided(c) /\ seen[c] # NoEntry /\ seen[c].resetTime <= nowAt[c]) =>
            /\ window[c] = c
            /\ result[c] = [success |-> TRUE,
                            remaining |-> config[c].maxRequests - 1,
                            reset |-> nowAt[c] + config[c].windowMs]

(***************************************************************************)
(* C6.  After the reset time of a key's window has passed (now > reset),   *)
(* the next call with that key is admitted with remaining =                *)
(* maxRequests - 1 and reset = now + windowMs, whatever was admitted or    *)
(* rejected in the previous window.                                        *)
(***************************************************************************)
\* the call decided last before c on the key of c (0: none)
Previous(c) ==
    LET before == {b \in Calls : /\ Decided(b)
                                 /\ identifier[b] = identifier[c]
                                 /\ Pos(b) < Pos(c)}
    IN  IF before = {} THEN 0
        ELSE CHOOSE b \in before : \A x \in before : Pos(x) <= Pos(b)

C6_FreshAfterReset ==
    \A c \in Calls :
        (Decided(c) /\ Previous(c) # 0 /\ nowAt[c] > result[Previous(c)].reset) =>
            result[c] = [success |-> TRUE,
                         remaining |-> config[c].maxRequests - 1,
                         reset |-> nowAt[c] + config[c].windowMs]

\* the previous window ended with a rejection, and the entry was still in
\* the store when the call ran
C6_Witness ==
    \E c \in Calls :
        /\ Decided(c)
        /\ Previous(c) # 0
        /\ ~result[Previous(c)].success
        /\ nowAt[c] > result[Previous(c)].reset
        /\ seen[c] # NoEntry

(***************************************************************************)
(* C7.  Calls on one key never affect another key: with no reset, every    *)
(* call returns the result it returns in the run that has the calls of its *)
(* own key only (same order, same timestamps).                             *)
(***************************************************************************)
C7_KeysIndependent ==
    ~resetSeen => \A c \in Calls : Decided(c) => result[c] = soloResult[c]

\* the calls of two keys interleave, and a call on one key ran the cleanup
\* that deleted the entry of the other
C7_Witness ==
    /\ ~resetSeen
    /\ \E a, b, c \in Calls :
          /\ Decided(a) /\ Decided(b) /\ Decided(c)
          /\ identifier[a] = identifier[c]
          /\ identifier[b] # identifier[a]
          /\ Pos(a) < Pos(b) /\ Pos(b) < Pos(c)
          /\ identifier[a] \in swept[b]

(***************************************************************************)
(* C8.  For calls on one key fired concurrently inside one window, the     *)
(* remaining values returned to the admitted calls, in the order the calls *)
(* were made, are maxRequests - 1, maxRequests - 2, ...: no duplicate, no  *)
(* gap.  As stated, for every run:                                         *)
(***************************************************************************)
\* the admitted calls of the window of c that were made no later than c
AdmittedUpTo(c) == {b \in Admitted(window[c]) : b <= c}

CountdownInCallOrder ==
    \A c \in Calls :
        (Decided(c) /\ result[c].success) =>
            result[c].remaining = config[c].maxRequests - Cardinality(AdmittedUpTo(c))

C8_CountdownInCallOrder == CountdownInCallOrder

(***************************************************************************)
(* C8, amended.  The same, when __testResetRateLimit is not invoked while  *)
(* calls are in flight.                                                    *)
(***************************************************************************)
C8_CountdownInCallOrderNoReset == ~resetInFlight => CountdownInCallOrder

\* three calls queued on one key, all decided, the quota of the window
\* used up by them
C8_Witness ==
    /\ ~resetInFlight
    /\ \E a, b, c \in Calls :
          /\ Queued3(a, b, c)
          /\ {a, b, c} \subseteq WindowCalls(a)
          /\ result[a].remaining = 2 /\ result[b].remaining = 1
          /\ result[c].success /\ result[c].remaining = 0

(***************************************************************************)
(* C9.  Per-key mutual exclusion: with no test reset while calls are in    *)
(* flight, at most one caller per key is between the end of its wait and   *)
(* the release of its gate.                                                *)
(***************************************************************************)
InCriticalSection(c) == pc[c] = "finally"

C9_MutualExclusion ==
    ~resetInFlight =>
        \A a, b \in Calls :
            (InCriticalSection(a) /\ InCriticalSection(b) /\ identifier[a] = identifier[b])
                => a = b

\* a caller holds the gate of a key on which two more callers wait
C9_Witness ==
    /\ ~resetInFlight
    /\ \E a, b, c \in Calls :
          /\ Queued3(a, b, c)
          /\ InCriticalSection(a)
          /\ pc[b] = "awaiting" /\ pc[c] = "awaiting"

(***************************************************************************)
(* C10.  Per-key FIFO: with no test reset while calls are in flight, the   *)
(* calls on one key are decided in the order in which they arrived.        *)
(***************************************************************************)
C10_DecidedInArrivalOrder ==
    ~resetInFlight =>
        \A a, b \in Calls :
            (a < b /\ identifier[a] = identifier[b] /\ Decided(b)) =>
                (Decided(a) /\ Pos(a) < Pos(b))

\* three calls on one key, the third made after the first had returned
\* and while the second waited, all decided
C10_Witness ==
    /\ ~resetInFlight
    /\ \E a, b, c \in Calls :
          /\ prev[b] = a /\ prev[c] = b
          /\ Decided(a) /\ Decided(b) /\ Decided(c)
          /\ Pos(a) < Pos(b) /\ Pos(b) < Pos(c)

(***************************************************************************)
(* C11.  Callers on distinct keys never contend: every holder a call waits *)
(* on belongs to a call on its own key, and a call that arrives on a key   *)
(* with no pending chain has its continuation queued at once, however many *)
(* callers are queued on other keys.                                       *)
(***************************************************************************)
\* the calls whose gates the holder h waits for
RECURSIVE Chain(_)
Chain(h) == IF h = 0 THEN {} ELSE {h} \cup Chain(prev[h])

\* call c is suspended at `await prev` on a holder that is not resolved
Waiting(c) == pc[c] = "awaiting" /\ ~HolderResolved(prev[c])

C11_DistinctKeysNeverContend ==
    \A c \in Calls :
        /\ pc[c] # "idle" =>
              \A h \in Chain(prev[c]) : identifier[h] = identifier[c]
        /\ Waiting(c) =>
              \E h \in Chain(prev[c]) :
                  identifier[h] = identifier[c] /\ ~released[h]
        /\ (pc[c] = "awaiting" /\ prev[c] = 0) => Queued(c)

\* one caller holds the gate of a key and another waits behind it, while a
\* caller that arrived later on another key has been decided
C11_Witness ==
    \E a, b, c \in Calls :
        /\ prev[b] = a /\ InCriticalSection(a) /\ Waiting(b)
        /\ b < c
        /\ identifier[c] # identifier[a]
        /\ Decided(c)

(***************************************************************************)
(* C14.  The pending-chain map does not grow for idle keys: a finishing    *)
(* caller removes the entry of its key from rateLimitLocks if and only if  *)
(* it is still the tail, and changes no other entry; so every entry of     *)
(* rateLimitLocks is the holder of a call in flight on that key, and the   *)
(* map is empty when no call is in flight.                                 *)
(***************************************************************************)
\* the step in which call c runs its finally block
Finishes(c) == pc[c] = "finally" /\ pc'[c] = "done"

LocksOnlyForInFlight ==
    \A k \in DOMAIN rateLimitLocks :
        /\ InFlight(rateLimitLocks[k])
        /\ identifier[rateLimitLocks[k]] = k

RemovesOwnTailOnly(c) ==
    LET k == identifier[c]
    IN  /\ MapHas(rateLimitLocks', k) <=> (MapHas(rateLimitLocks, k) /\ rateLimitLocks[k] # c)
        /\ \A j \in DOMAIN rateLimitLocks' :
              MapHas(rateLimitLocks, j) /\ rateLimitLocks'[j] = rateLimitLocks[j]

C14_LocksOnlyForInFlight ==
    /\ []LocksOnlyForInFlight
    /\ [][\A c \in Calls : Finishes(c) => RemovesOwnTailOnly(c)]_vars

\* three calls were queued on one key and calls ran on another key; all
\* have returned, and the map is empty
C14_Witness ==
    /\ \A c \in Calls : pc[c] = "done"
    /\ \E a, b \in Calls : prev[b] = a
    /\ \E a, b \in Calls : identifier[a] # identifier[b]
    /\ rateLimitLocks = EmptyMap
    /\ ~resetSeen

(***************************************************************************)
(* C15.  Lazy reaper trigger: a call runs the cleanup if and only if more  *)
(* than 300000 ms have passed since lastCleanup when its body runs; a call *)
(* that runs it records now in lastCleanup, a call that does not leaves    *)
(* lastCleanup and the entries of all other keys as they are.  As stated,  *)
(* with the consequence that two sweeps of a run are always more than      *)
(* 300000 ms apart:                                                        *)
(***************************************************************************)
\* the step in which the body of call c runs
Decides(c) == pc[c] = "awaiting" /\ pc'[c] = "finally"

OthersUntouched(c) ==
    /\ DOMAIN rateLimitStore' \ {identifier[c]} = DOMAIN rateLimitStore \ {identifier[c]}
    /\ \A j \in DOMAIN rateLimitStore \ {identifier[c]} :
          rateLimitStore'[j] = rateLimitStore[j]

ReaperTrigger ==
    \A c \in Calls : Decides(c) =>
        IF clock' - lastCleanup > 300000
        THEN cleanupRan'[c] /\ lastCleanup' = clock'
        ELSE ~cleanupRan'[c] /\ lastCleanup' = lastCleanup /\ OthersUntouched(c)

SweepsFarApart ==
    \A a, b \in Calls :
        (Decided(a) /\ Decided(b) /\ cleanupRan[a] /\ cleanupRan[b] /\ Pos(a) < Pos(b))
            => nowAt[b] - nowAt[a] > 300000

C15_ReaperTrigger == [][ReaperTrigger]_vars /\ []SweepsFarApart

(***************************************************************************)
(* C15, amended.  The trigger as above; two sweeps are more than 300000 ms *)
(* apart when __testResetRateLimit, which sets lastCleanup back to 0, has  *)
(* not run between them.                                                   *)
(***************************************************************************)
C15_ReaperTriggerNoReset ==
    [][ReaperTrigger]_vars /\ [](~resetSeen => SweepsFarApart)

\* two calls ran the cleanup, and between them a call on another key,
\* within the interval, found expired entries and left them alone
C15_Witness ==
    /\ ~resetSeen
    /\ \E a, b, c \in Calls :
          /\ Decided(a) /\ Decided(b) /\ Decided(c)
          /\ Pos(a) < Pos(b) /\ Pos(b) < Pos(c)
          /\ cleanupRan[a] /\ ~cleanupRan[b] /\ cleanupRan[c]
          /\ identifier[b] # identifier[a]
          /\ nowAt[b] > result[a].reset
          /\ swept[c] # {}

(***************************************************************************)
(* C16.  A sweep that runs at time now deletes every entry with            *)
(* resetTime <= now: after the body of a call that ran the cleanup, the    *)
(* store has no entry with resetTime <= now, an entry with resetTime = now *)
(* included.  (The entry the call itself writes has resetTime =            *)
(* now + windowMs > now when the sweep deleted the old one.)               *)
(***************************************************************************)
C16_SweepDeletesExpired ==
    [][\A c \in Calls : (Decides(c) /\ cleanupRan'[c]) =>
          \A k \in DOMAIN rateLimitStore' : rateLimitStore'[k].resetTime > clock'
      ]_vars

(***************************************************************************)
(* C12.  Release on all exit paths: when the body of a call throws after   *)
(* the call got its turn, the finally block still resolves the gate of the *)
(* call, so that its holder is resolved, and removes the entry of its key  *)
(* if the call is still the tail; in the end every call that was queued    *)
(* behind a call that threw has had its turn and has returned.             *)
(***************************************************************************)
\* the body of call c threw
Threw(c) == Decided(c) /\ config[c] = UndefinedConfig

ThrownCallReleases ==
    \A c \in Calls : (Finishes(c) /\ Threw(c)) =>
        /\ released'[c]
        /\ HolderResolved(c)'
        /\ RemovesOwnTailOnly(c)

C12_ReleaseOnAllExitPaths ==
    /\ [][ThrownCallReleases]_vars
    /\ <>[](\A a, b \in Calls : (Threw(a) /\ prev[b] = a) => pc[b] = "done")

\* a call that threw has returned, and the call that waited behind it on
\* the same key has been admitted
C12_Witness ==
    \E a, b \in Calls :
        /\ prev[b] = a
        /\ Threw(a) /\ pc[a] = "done"
        /\ Decided(b) /\ result[b].success

(***************************************************************************)
(* C13.  No waiter is blocked indefinitely: under the fairness of the      *)
(* event loop every call of checkRateLimit on the in-memory path gets its  *)
(* turn and returns, whatever is queued on its key.  A call never goes     *)
(* back (idle, awaiting, finally, done), so this is: from some point on no *)
(* call is in flight.                                                      *)
(***************************************************************************)
NeverGoesBack ==
    \A c \in Calls :
        /\ pc[c] # "idle" => pc'[c] # "idle"
        /\ pc[c] = "done" => pc'[c] = "done"

C13_EveryCallReturns ==
    /\ [][NeverGoesBack]_vars
    /\ <>[](\A c \in Calls : ~InFlight(c))

\* the last of three calls queued on one key has returned
C13_Witness ==
    \E a, b, c \in Calls :
        /\ Queued3(a, b, c)
        /\ pc[c] = "done"

(***************************************************************************)
(* C17.  Fail-closed in production: when the mode is UPSTASH, the external *)
(* call fails and NODE_ENV is production, checkRateLimit rethrows: the     *)
(* call ends with the failure, returns no result, and never enters the     *)
(* in-memory algorithm (no chain entry, no body, no change of the store).  *)
(***************************************************************************)
\* the step in which the external call of c fails
UpstashFailure(c) == pc[c] = "upstash" /\ pc'[c] \in {"threw", "awaiting"}

\* the body of the in-memory algorithm has run for call c
RanLocally(c) == \E i \in 1..Len(log) : log[i] = c

RethrowsInProduction ==
    \A c \in Calls : (UpstashFailure(c) /\ env.NODE_ENV = "production") =>
        /\ pc'[c] = "threw"
        /\ result'[c] = NoResult
        /\ UNCHANGED <<rateLimitStore, rateLimitLocks, lastCleanup, microtasks>>

C17_FailClosedInProduction ==
    /\ [][RethrowsInProduction]_vars
    /\ [][\A c \in Calls : pc[c] = "threw" => pc'[c] = "threw"]_vars
    /\ [](env.NODE_ENV = "production" =>
            \A c \in attempted : ~RanLocally(c) /\ pc[c] \in {"upstash", "threw", "done"})
    /\ [](\A c \in Calls : pc[c] = "threw" => result[c] = NoResult)

\* in production one call ended with the failure of the external call, and
\* another got a result from the external limiter
C17_Witness ==
    /\ env.NODE_ENV = "production"
    /\ \E a, b \in Calls :
          /\ pc[a] = "threw"
          /\ pc[b] = "done" /\ result[b] \in UpstashResults

(***************************************************************************)
(* C18.  Fallback outside production: when the mode is UPSTASH, the        *)
(* external call fails and NODE_ENV is not production, the call joins the  *)
(* chain of its key and is decided by the in-memory algorithm: the i-th    *)
(* call decided on a window is admitted with remaining = maxRequests - i   *)
(* while i <= maxRequests and rejected with remaining = 0 after, with the  *)
(* reset time of the window; the store counts the admitted calls; at most  *)
(* maxRequests calls are admitted per window.                              *)
(***************************************************************************)
FellBack(c) == c \in attempted /\ RanLocally(c)

FallsBackOutsideProduction ==
    \A c \in Calls : (UpstashFailure(c) /\ env.NODE_ENV # "production") =>
        /\ pc'[c] = "awaiting"
        /\ prev'[c] = LockTail(rateLimitLocks, identifier[c])
        /\ rateLimitLocks'[identifier[c]] = c

\* the result of the in-memory algorithm for the Rank(c)-th call of a window
LocalResult(c) ==
    [success |-> Rank(c) <= config[c].maxRequests,
     remaining |-> IF Rank(c) <= config[c].maxRequests
                   THEN config[c].maxRequests - Rank(c) ELSE 0,
     reset |-> nowAt[window[c]] + config[c].windowMs]

FallbackIsLocal ==
    /\ \A c \in Calls : FellBack(c) => result[c] = LocalResult(c)
    /\ attempted # {} =>
          \A k \in DOMAIN rateLimitStore :
              /\ rateLimitStore[k].count = Cardinality(Admitted(windowOwner[k]))
              /\ rateLimitStore[k].resetTime =
                    nowAt[windowOwner[k]] + config[windowOwner[k]].windowMs
    /\ \A w \in attempted : Cardinality(Admitted(w)) <= siteConfig.maxRequests

C18_FallbackOutsideProduction ==
    [][FallsBackOutsideProduction]_vars /\ []FallbackIsLocal

\* three calls on one key fell back, the one made first joined the chain
\* after another, and the quota was used up: one of them was rejected
C18_Witness ==
    \E a, b, c \in Calls :
        /\ a < b
        /\ FellBack(a) /\ FellBack(b) /\ FellBack(c)
        /\ window[a] = window[b] /\ window[c] = window[b]
        /\ Pos(b) < Pos(a)
        /\ ~result[c].success

(***************************************************************************)
(* C19.  Backend selection: the external backend is attempted if and only  *)
(* if RATE_LIMIT_MODE, whatever its case, is UPSTASH; with the flag unset, *)
(* empty or of any other value no call reaches the external backend and    *)
(* every call is decided by the in-memory algorithm.                       *)
(***************************************************************************)
IsUpstashFlag(flag) == flag \in {"upstash", "Upstash", "UPSTASH"}

C19_BackendSelection ==
    /\ \A c \in Calls : pc[c] # "idle" =>
          (c \in attempted <=> IsUpstashFlag(env.RATE_LIMIT_MODE))
    /\ ~IsUpstashFlag(env.RATE_LIMIT_MODE) =>
          /\ attempted = {}
          /\ \A c \in Calls :
                /\ pc[c] \in {"idle", "awaiting", "finally", "done"}
                /\ pc[c] = "done" => RanLocally(c) /\ result[c] = LocalResult(c)

\* the flag is written in mixed case: a call has reached the external
\* limiter and returned its result, without running the in-memory body
C19_Witness ==
    /\ env.RATE_LIMIT_MODE = "Upstash"
    /\ \E c \in Calls :
          /\ c \in attempted
          /\ pc[c] = "done"
          /\ ~RanLocally(c)
          /\ result[c] \in UpstashResults

(***************************************************************************)
(* C20.  getClientIP returns the identity by trust-ordered precedence for  *)
(* every combination of present and absent headers: the value of           *)
(* cf-connecting-ip if the header is present, else the value of x-real-ip  *)
(* if present, else the first entry of the comma-separated x-forwarded-for *)
(* if present, else 127.0.0.1.  As stated, a header being present when the *)
(* request has it:                                                         *)
(***************************************************************************)
\* the positions of the separators of a list, with both ends
Cuts(str) == {0, Len(str) + 1} \cup {i \in 1..Len(str) : str[i] = ","}

\* the entry of the list that starts after the cut lo
EntryAfter(str, lo) ==
    LET hi == CHOOSE h \in Cuts(str) :
                  h > lo /\ \A x \in Cuts(str) : x > lo => h <= x
    IN  SubSeq(str, lo + 1, hi - 1)

\* an entry without the spaces around it
Stripped(entry) ==
    LET inked == {i \in 1..Len(entry) : entry[i] # " "}
    IN  IF inked = {} THEN << >>
        ELSE SubSeq(entry,
                    CHOOSE i \in inked : \A x \in inked : i <= x,
                    CHOOSE i \in inked : \A x \in inked : x <= i)

Called == clientIP # << >>

C20_TrustOrderedPrecedence ==
    Called =>
        clientIP =
            IF MapHas(request, "cf-connecting-ip") THEN request["cf-connecting-ip"]
            ELSE IF MapHas(request, "x-real-ip") THEN request["x-real-ip"]
            ELSE IF MapHas(request, "x-forwarded-for")
            THEN Stripped(EntryAfter(request["x-forwarded-for"], 0))
            ELSE Localhost

(***************************************************************************)
(* C20, amended.  The same precedence over the headers that are present    *)
(* with a value that is not empty; of x-forwarded-for the first entry that *)
(* is not empty once the spaces around it are removed, and 127.0.0.1 when  *)
(* it has no such entry.                                                   *)
(***************************************************************************)
\* the cuts after which an entry that is not blank starts
InkedCuts(str) ==
    {lo \in Cuts(str) : lo <= Len(str) /\ Stripped(EntryAfter(str, lo)) # << >>}

FirstInkedEntry(str) ==
    Stripped(EntryAfter(str, CHOOSE lo \in InkedCuts(str) :
                                 \A x \in InkedCuts(str) : lo <= x))

C20_TrustOrderedPrecedenceNonEmpty ==
    Called =>
        clientIP =
            IF MapHas(request, "cf-connecting-ip") /\ request["cf-connecting-ip"] # << >>
            THEN request["cf-connecting-ip"]
            ELSE IF MapHas(request, "x-real-ip") /\ request["x-real-ip"] # << >>
            THEN request["x-real-ip"]
            ELSE IF MapHas(request, "x-forwarded-for")
                    /\ InkedCuts(request["x-forwarded-for"]) # {}
            THEN FirstInkedEntry(request["x-forwarded-for"])
            ELSE Localhost

\* cf-connecting-ip is present and empty, x-real-ip is absent, and the
\* first entry of x-forwarded-for is blank: the second entry is returned
C20_Witness ==
    /\ Called
    /\ MapHas(request, "cf-connecting-ip")
    /\ ~MapHas(request, "x-real-ip")
    /\ MapHas(request, "x-forwarded-for")
    /\ request["x-forwarded-for"] = <<",", " ", "c">>
    /\ clientIP = <<"c">>

(***************************************************************************)
(* C21  After __testResetRateLimit has run, the first call decided on a    *)
(* key whose quota was used up before the reset is admitted at once, with  *)
(* remaining = maxRequests - 1 and a window that starts at that call,      *)
(* although the old window has not expired.                                *)
(***************************************************************************)
\* The body of call c ran before, or after, the reset.
BeforeReset(c) == Decided(c) /\ (resetSeen => Pos(c) <= resetAt)
AfterReset(c) == Decided(c) /\ resetSeen /\ Pos(c) > resetAt

\* b is the last call decided on its key before the reset.
LastBeforeReset(b) ==
    /\ BeforeReset(b)
    /\ \A d \in Calls :
          identifier[d] = identifier[b] /\ BeforeReset(d) => Pos(d) <= Pos(b)

\* c is the first call decided on its key after the reset.
FirstAfterReset(c) ==
    /\ AfterReset(c)
    /\ \A d \in Calls :
          identifier[d] = identifier[c] /\ AfterReset(d) => Pos(c) <= Pos(d)

\* The quota of key k was used up when the reset ran.
ExhaustedBeforeReset(k) ==
    \E b \in Calls :
        identifier[b] = k /\ LastBeforeReset(b) /\ result[b].remaining = 0

C21_ResetReadmitsExhaustedKey ==
    \A c \in Calls :
        FirstAfterReset(c) /\ ExhaustedBeforeReset(identifier[c]) =>
            result[c] = [success |-> TRUE,
                         remaining |-> config[c].maxRequests - 1,
                         reset |-> nowAt[c] + config[c].windowMs]

\* a call is rejected, the reset runs, and the next call on the key is
\* admitted in the same millisecond, inside the window of the rejected call
C21_Witness ==
    \E b, c \in Calls :
        /\ identifier[b] = identifier[c]
        /\ LastBeforeReset(b) /\ ~result[b].success
        /\ FirstAfterReset(c)
        /\ nowAt[c] = nowAt[b] /\ nowAt[c] < result[b].reset
        /\ result[c].success
        /\ result[c].remaining = config[c].maxRequests - 1

(***************************************************************************)
(* C22  __testResetRateLimit empties the store and the map of pending      *)
(* chains and sets the last sweep time to 0 in one step.  The calls that   *)
(* were waiting for their turn when it ran are not stranded: calls on one  *)
(* key still run in the order they were made, and each of them finishes,   *)
(* with a result of the body when its config is an object.                 *)
(***************************************************************************)
\* Call c was made before the reset: calls are numbered in the order they
\* are made.
MadeBeforeReset(c) == resetSeen /\ c <= resetCalls

\* Call c was made before the reset and its body had not run by then.
QueuedAtReset(c) ==
    /\ MadeBeforeReset(c)
    /\ Decided(c) => Pos(c) > resetAt

ResetStep == ~resetSeen /\ resetSeen'

ResetClearsAtOnce ==
    ResetStep =>
        /\ rateLimitStore' = EmptyMap
        /\ rateLimitLocks' = EmptyMap
        /\ lastCleanup' = 0

QueuedKeepTheirOrder ==
    \A a, b \in Calls :
        /\ a < b /\ identifier[a] = identifier[b]
        /\ QueuedAtReset(a) /\ QueuedAtReset(b)
        /\ Decided(b)
        => Decided(a) /\ Pos(a) < Pos(b)

QueuedHaveReturned ==
    \A c \in Calls :
        QueuedAtReset(c) =>
            /\ pc[c] = "done"
            /\ released[c]
            /\ config[c] # UndefinedConfig =>
                  /\ result[c] # NoResult
                  /\ result[c].reset = nowAt[window[c]] + config[window[c]].windowMs

C22_ResetDoesNotStrandQueuedCalls ==
    /\ [][ResetClearsAtOnce]_vars
    /\ []QueuedKeepTheirOrder
    /\ <>[]QueuedHaveReturned

\* the reset ran while two calls on one key were waiting for their turn,
\* and both have returned a result, the earlier call first
C22_Witness ==
    \E a, b \in Calls :
        /\ a < b /\ identifier[a] = identifier[b]
        /\ QueuedAtReset(a) /\ QueuedAtReset(b)
        /\ pc[a] = "done" /\ pc[b] = "done"
        /\ Pos(a) < Pos(b)
        /\ result[a].success /\ result[b].success
        /\ result[b].remaining = result[a].remaining - 1

(***************************************************************************)
(* Callers with any configuration.  RateLimitConfig (lines 18-21) is a     *)
(* pair of numbers and the limiter validates neither: a caller may pass a   *)
(* quota or a window that is zero or negative, a different config in each  *)
(* call, or a value that is not an object.  All calls are on one           *)
(* identifier, so that every config meets the entry every other config     *)
(* left behind.                                                            *)
(***************************************************************************)
\* a usual config, a window of no length, a quota of zero, and a negative
\* quota with a negative window
IntegerConfigs ==
    {[maxRequests |-> 2, windowMs |-> 1],
     [maxRequests |-> 1, windowMs |-> 0],
     [maxRequests |-> 0, windowMs |-> 1],
     [maxRequests |-> -1, windowMs |-> -1]}
ShortTickSteps == {0, 1}

InitConfig == InitWith({[RATE_LIMIT_MODE |-> "", NODE_ENV |-> "test"]}, {RATE_LIMIT_CONFIG}, {EmptyMap})

NextConfig ==
    \/ \E c \in Calls, cfg \in IntegerConfigs \cup {UndefinedConfig} :
          checkRateLimit(c, 1, cfg)
    \/ \E c \in Calls : holderResolves(c)
    \/ \E c \in Calls, d \in ShortTickSteps : tryBody(c, d)
    \/ \E c \in Calls, d \in ShortTickSteps : tryBodyThrows(c, d)
    \/ \E c \in Calls : finallyRelease(c)

SpecConfig == InitConfig /\ [][NextConfig]_vars

(***************************************************************************)
(* C23  A call whose config has maxRequests >= 1 returns a remaining that  *)
(* is never negative: it lies in 0..maxRequests-1, and it is 0 when the    *)
(* call is rejected.  This holds whatever configs the other calls on the   *)
(* key passed.                                                             *)
(***************************************************************************)
Returned(c) == Decided(c) /\ ~Throws(config[c])

C23_RemainingInRange ==
    \A c \in Calls :
        Returned(c) /\ config[c].maxRequests >= 1 =>
            /\ result[c].remaining \in 0..(config[c].maxRequests - 1)
            /\ ~result[c].success => result[c].remaining = 0

\* a call with quota 1 is rejected with remaining 0 on an entry that a call
\* with quota 2 created, and a call with quota 2 is admitted with remaining 0
C23_Witness ==
    \E a, b, c \in Calls :
        /\ Returned(a) /\ Returned(b) /\ Returned(c)
        /\ config[a].maxRequests = 2 /\ result[a].success /\ result[a].remaining = 1
        /\ config[b].maxRequests = 1 /\ ~result[b].success /\ result[b].remaining = 0
        /\ config[c].maxRequests = 2 /\ result[c].success /\ result[c].remaining = 0
        /\ seen[b].count = 1 /\ seen[c].count = 1

(***************************************************************************)
(* C24  With the local backend a call whose config is a pair of integers,  *)
(* of any sign, does not raise: its body returns a RateLimitResult, and    *)
(* the call resolves its gate and leaves no chain of its own behind.       *)
(***************************************************************************)
IsResult(r) ==
    /\ r # NoResult
    /\ r.success \in BOOLEAN
    /\ r.remaining \in Int
    /\ r.reset \in Int

C24_LocalPathNeverRaises ==
    \A c \in Calls :
        config[c] \in IntegerConfigs =>
            /\ Decided(c) => IsResult(result[c])
            /\ pc[c] = "done" =>
                  /\ released[c]
                  /\ LockTail(rateLimitLocks, identifier[c]) # c

\* a call with quota 0 was admitted with remaining -1, a call with a
\* negative quota and a negative window returned too, and both have
\* released their slot
C24_Witness ==
    \E a, b \in Calls :
        /\ config[a] = [maxRequests |-> 0, windowMs |-> 1]
        /\ config[b] = [maxRequests |-> -1, windowMs |-> -1]
        /\ pc[a] = "done" /\ pc[b] = "done"
        /\ result[a].success /\ result[a].remaining = -1
        /\ IsResult(result[b])
        /\ released[a] /\ released[b]
        /\ rateLimitLocks = EmptyMap

(***************************************************************************)
(* The newsletter route handlers, lines 163-453.  Prisma and the body of   *)
(* the request are outside this source: once the limiter has admitted the  *)
(* request, the business logic ends in any of the outcomes the handler     *)
(* distinguishes, or throws.  All requests come from one IP.               *)
(***************************************************************************)
Methods == {"POST", "DELETE", "GET"}

True == <<"t", "r", "u", "e">>

\* (a check that accepts any token that is not empty)
checkCSRFPresenceOnly(e, headers) ==
    /\ MapHas(e, "CSRF_PROTECTION") /\ e["CSRF_PROTECTION"] = True
    /\ ~Truthy(headers, "x-csrf-token")

\* checkCSRF, lines 178-191: TRUE when it returns the 403 response
checkCSRF(e, headers) ==
    /\ MapHas(e, "CSRF_PROTECTION") /\ e["CSRF_PROTECTION"] = True
    /\ \/ ~Truthy(headers, "x-csrf-token")
       \/ ~MapHas(e, "CSRF_PROTECTION_TOKEN")
       \/ headers["x-csrf-token"] # e["CSRF_PROTECTION_TOKEN"]

\* (headers computed from the quota instead of the decision)
getRateLimitHeadersOfQuota(remaining, reset) ==
    [h \in {"X-RateLimit-Limit", "X-RateLimit-Remaining", "X-RateLimit-Reset"} |->
        CASE h = "X-RateLimit-Limit" -> ToString(RATE_LIMIT_CONFIG.maxRequests)
          [] h = "X-RateLimit-Remaining" -> ToString(RATE_LIMIT_CONFIG.maxRequests - 1)
          [] h = "X-RateLimit-Reset" -> ToString(reset)]

\* getRateLimitHeaders, lines 196-205
getRateLimitHeaders(remaining, reset) ==
    [h \in {"X-RateLimit-Limit", "X-RateLimit-Remaining", "X-RateLimit-Reset"} |->
        CASE h = "X-RateLimit-Limit" -> ToString(RATE_LIMIT_CONFIG.maxRequests)
          [] h = "X-RateLimit-Remaining" -> ToString(remaining)
          [] h = "X-RateLimit-Reset" -> ToString(reset)]

\* lines 208-216, 314-322, 396-400: the handler of method m up to
\* `await checkRateLimit`; k is the identifier getClientIP derives from the
\* request.  GET does not call checkCSRF.
Handler(c, m, k) ==
    /\ pc[c] = "idle"
    /\ \A b \in Calls : b < c => pc[b] # "idle"
    /\ IF m # "GET" /\ checkCSRF(csrfEnv, request)
       THEN /\ response' = [call |-> c, method |-> m, status |-> 403,
                             headers |-> EmptyMap]
            /\ pc' = [pc EXCEPT ![c] = "responded"]
            /\ UNCHANGED <<csrfEnv, method, database, request, clientIP, clock, env, siteConfig,
                           rateLimitStore, rateLimitLocks, lastCleanup, identifier,
                           config, prev, released, microtasks, result, history,
                           resetFlags>>
       ELSE /\ EnterLocalPath(c, k, RATE_LIMIT_CONFIG)
            /\ method' = [method EXCEPT ![c] = m]
            /\ UNCHANGED <<csrfEnv, response, database>>

\* (a POST handler whose refused requests are counted in the window)
POSTCountsRefused(c, k) ==
    IF checkCSRF(csrfEnv, request) /\ MapHas(rateLimitStore, k)
    THEN /\ pc[c] = "idle"
         /\ \A b \in Calls : b < c => pc[b] # "idle"
         /\ response' = [call |-> c, method |-> "POST", status |-> 403,
                          headers |-> EmptyMap]
         /\ pc' = [pc EXCEPT ![c] = "responded"]
         /\ rateLimitStore' =
                MapSet(rateLimitStore, k,
                       [count |-> rateLimitStore[k].count + 1,
                        resetTime |-> rateLimitStore[k].resetTime])
         /\ UNCHANGED <<csrfEnv, method, database, request, clientIP, clock, env,
                        siteConfig, rateLimitLocks, lastCleanup, identifier,
                        config, prev, released, microtasks, result, history,
                        resetFlags>>
    ELSE Handler(c, "POST", k)

POST(c, k) == Handler(c, "POST", k)
DELETE(c, k) == Handler(c, "DELETE", k)
\* (a GET handler that counts its requests under a key of its own)
GETOwnKey(c, k) == Handler(c, "GET", k + 1)

GET(c, k) == Handler(c, "GET", k)

\* The ways the business logic of each handler ends: lines 228-303,
\* 334-385, 412-445, and the catch blocks.
Outcomes(m) ==
    CASE m = "POST" -> {"invalid", "resubscribed", "conflict", "created", "threw"}
      [] m = "DELETE" -> {"invalid", "notfound", "already", "unsubscribed", "threw"}
      [] m = "GET" -> {"stats", "threw"}

StatusOf(outcome) ==
    CASE outcome = "invalid" -> 400
      [] outcome = "resubscribed" -> 200
      [] outcome = "conflict" -> 409
      [] outcome = "created" -> 201
      [] outcome = "notfound" -> 404
      [] outcome = "already" -> 200
      [] outcome = "unsubscribed" -> 200
      [] outcome = "stats" -> 200
      [] outcome = "threw" -> 500

\* (a handler that does not look at the decision of the limiter)
ResponseIgnoresLimit(r, outcome) ==
    IF outcome = "threw"
    THEN [status |-> 500, headers |-> EmptyMap]
    ELSE [status |-> IF outcome = "limited" THEN 200 ELSE StatusOf(outcome),
          headers |-> getRateLimitHeaders(r.remaining, r.reset)]

\* lines 218-310: the response built from the decision r of the limiter
\* and the outcome of the business logic
ResponseOf(r, outcome) ==
    IF ~r.success
    THEN [status |-> 429, headers |-> getRateLimitHeaders(r.remaining, r.reset)]
    ELSE IF outcome = "threw"
    THEN [status |-> 500, headers |-> EmptyMap]
    ELSE [status |-> StatusOf(outcome),
          headers |-> getRateLimitHeaders(r.remaining, r.reset)]

\* the handler after `await checkRateLimit` has returned, to its return
respond(c, outcome) ==
    /\ pc[c] = "done"
    /\ method[c] \in Methods
    /\ IF result[c].success THEN outcome \in Outcomes(method[c]) ELSE outcome = "limited"
    /\ response' = [call |-> c, method |-> method[c],
                     status |-> ResponseOf(result[c], outcome).status,
                     headers |-> ResponseOf(result[c], outcome).headers]
    /\ method' = [method EXCEPT ![c] = ""]
    /\ UNCHANGED <<csrfEnv, database, request, clientIP, clock, env, siteConfig,
                   rateLimitStore, rateLimitLocks, lastCleanup, pc, identifier,
                   config, prev, released, microtasks, result, history, resetFlags>>

AllOutcomes == UNION {Outcomes(m) : m \in Methods} \cup {"limited"}

\* Requests the IP made in the current window before the run starts: with
\* two, the first request of the run is the third of the window.
PriorRequests == {2}

\* The module state after n calls with identifier 1 and config cfg at
\* StartTime.
InitRouteWith(priors, cfg, environments, requests) ==
    /\ request \in requests
    /\ csrfEnv \in environments
    /\ clientIP = << >>
    /\ clock = StartTime
    /\ env = [RATE_LIMIT_MODE |-> "", NODE_ENV |-> "test"]
    /\ siteConfig = cfg
    /\ \E n \in priors :
          /\ rateLimitStore =
                IF n = 0 THEN EmptyMap
                ELSE MapSet(EmptyMap, 1, [count |-> n,
                                          resetTime |-> StartTime + cfg.windowMs])
          /\ lastCleanup = IF n = 0 THEN 0 ELSE StartTime
    /\ soloStore = rateLimitStore
    /\ soloCleanup = [k \in Keys |-> IF k = 1 THEN lastCleanup ELSE 0]
    /\ windowOwner = [k \in DOMAIN rateLimitStore |-> 0]
    /\ rateLimitLocks = EmptyMap
    /\ pc = [c \in Calls |-> "idle"]
    /\ identifier = [c \in Calls |-> 0]
    /\ config = [c \in Calls |-> NoConfig]
    /\ prev = [c \in Calls |-> 0]
    /\ released = [c \in Calls |-> FALSE]
    /\ microtasks = << >>
    /\ result = [c \in Calls |-> NoResult]
    /\ log = << >>
    /\ nowAt = [c \in Calls |-> 0]
    /\ seen = [c \in Calls |-> NoEntry]
    /\ window = [c \in Calls |-> 0]
    /\ swept = [c \in Calls |-> {}]
    /\ cleanupRan = [c \in Calls |-> FALSE]
    /\ attempted = {}
    /\ soloResult = [c \in Calls |-> NoResult]
    /\ resetSeen = FALSE
    /\ resetInFlight = FALSE
    /\ resetAt = 0
    /\ resetCalls = 0
    /\ method = [c \in Calls |-> ""]
    /\ response = NoResponse
    /\ database = [c \in Calls |-> << >>]

InitRoute == InitRouteWith(PriorRequests, RATE_LIMIT_CONFIG, {EmptyMap}, {EmptyMap})

NextRoute ==
    \/ \E c \in Calls : POST(c, 1)
    \/ \E c \in Calls : DELETE(c, 1)
    \/ \E c \in Calls : GET(c, 1)
    \/ \E c \in Calls : holderResolves(c)
    \/ \E c \in Calls, d \in ShortTickSteps : tryBody(c, d)
    \/ \E c \in Calls : finallyRelease(c)
    \/ \E c \in Calls, outcome \in AllOutcomes : respond(c, outcome)

SpecRoute == InitRoute /\ [][NextRoute]_vars

(***************************************************************************)
(* C25  A handler that gets success=false from the limiter answers 429     *)
(* with X-RateLimit-Remaining 0 and with the reset time of the window the  *)
(* request was counted against, unchanged; and it gets success=false when  *)
(* the window of the IP already holds three requests, that is on the       *)
(* fourth request of the window and on every further one.                  *)
(***************************************************************************)
\* The handler of the last response had a decision of the limiter.
Answered == response.call # 0 /\ response.status # 403

\* Requests counted in the window before the request of the last response.
CountedBefore == seen[response.call].count

C25_LimitedAnswers429 ==
    Answered =>
        /\ ~result[response.call].success <=> CountedBefore >= RATE_LIMIT_CONFIG.maxRequests
        /\ ~result[response.call].success <=> response.status = 429
        /\ response.status = 429 =>
              /\ response.headers # EmptyMap
              /\ response.headers["X-RateLimit-Limit"] = "3"
              /\ response.headers["X-RateLimit-Remaining"] = "0"
              /\ response.headers["X-RateLimit-Reset"] =
                    ToString(seen[response.call].resetTime)

\* the fifth request of the window is answered 429 after the fourth was,
\* two milliseconds after the start of the run, with the reset time of the
\* window
C25_Witness ==
    /\ Answered
    /\ response.status = 429
    /\ response.method = "DELETE"
    /\ CountedBefore = 3
    /\ \E b \in Calls : b # response.call /\ Decided(b) /\ ~result[b].success
    /\ nowAt[response.call] = StartTime + 2
    /\ response.headers["X-RateLimit-Reset"] = ToString(StartTime + 3600000)

(***************************************************************************)
(* C26  Every response a handler returns after the limiter has given its   *)
(* decision carries X-RateLimit-Limit, X-RateLimit-Remaining and           *)
(* X-RateLimit-Reset with the values of that decision, whatever the        *)
(* outcome of the business logic, a failure of it included.                *)
(***************************************************************************)
C26_HeadersOnEveryResponse ==
    Answered =>
        response.headers =
            [h \in {"X-RateLimit-Limit", "X-RateLimit-Remaining", "X-RateLimit-Reset"} |->
                CASE h = "X-RateLimit-Limit" -> "3"
                  [] h = "X-RateLimit-Remaining" ->
                        ToString(result[response.call].remaining)
                  [] h = "X-RateLimit-Reset" ->
                        ToString(result[response.call].reset)]

(***************************************************************************)
(* The static-token check under every setting of CSRF_PROTECTION and       *)
(* CSRF_PROTECTION_TOKEN, with requests that carry no x-csrf-token header, *)
(* an empty one, the token "s" or the token "t".  A run follows each       *)
(* request to the decision of the limiter.                                 *)
(***************************************************************************)
TokenValues == {<< >>, <<"s">>, <<"t">>}

TokenRequests ==
    {[name \in {x \in {"x-csrf-token"} : token # << >>} |-> token[1]] :
        token \in Optional(TokenValues)}

EnvOf(protection, token) ==
    LET given == [name \in {"CSRF_PROTECTION", "CSRF_PROTECTION_TOKEN"} |->
                     IF name = "CSRF_PROTECTION" THEN protection ELSE token]
    IN  [name \in {x \in DOMAIN given : given[x] # << >>} |-> given[name][1]]

CsrfEnvs ==
    {EnvOf(protection, token) :
        protection \in Optional({True, <<"1">>}),
        token \in Optional({<< >>, <<"s">>})}

InitCSRF == InitRouteWith({0}, RATE_LIMIT_CONFIG, CsrfEnvs, TokenRequests)

NextCSRF ==
    \/ \E c \in Calls : POST(c, 1)
    \/ \E c \in Calls : DELETE(c, 1)
    \/ \E c \in Calls : GET(c, 1)
    \/ \E c \in Calls : holderResolves(c)
    \/ \E c \in Calls : tryBody(c, 0)
    \/ \E c \in Calls : finallyRelease(c)

SpecCSRF == InitCSRF /\ [][NextCSRF]_vars

(***************************************************************************)
(* C27  POST and DELETE answer 403 if and only if CSRF_PROTECTION is       *)
(* 'true' and the x-csrf-token header is missing or differs from           *)
(* CSRF_PROTECTION_TOKEN; otherwise the request is not answered 403 and    *)
(* goes on to the rate-limit check.  GET is never answered 403.            *)
(***************************************************************************)
ProtectionOn == MapHas(csrfEnv, "CSRF_PROTECTION") /\ csrfEnv["CSRF_PROTECTION"] = True

\* The header is missing, or differs from the configured token (a token
\* that is not configured is undefined, and every header differs from it).
TokenMissingOrDifferent ==
    \/ ~MapHas(request, "x-csrf-token")
    \/ ~MapHas(csrfEnv, "CSRF_PROTECTION_TOKEN")
    \/ request["x-csrf-token"] # csrfEnv["CSRF_PROTECTION_TOKEN"]

TokenEmpty == MapHas(request, "x-csrf-token") /\ request["x-csrf-token"] = << >>

\* Request c passed the token check and is in the limiter, or through it.
WentOnToRateLimit(c) ==
    /\ pc[c] \in {"awaiting", "finally", "done"}
    /\ config[c] = RATE_LIMIT_CONFIG

StaticTokenCheck(refused) ==
    /\ response.status = 403 => response.method \in {"POST", "DELETE"} /\ refused
    /\ \A c \in Calls :
          /\ pc[c] = "responded" => response.status = 403
          /\ method[c] \in {"POST", "DELETE"} => ~refused /\ WentOnToRateLimit(c)
          /\ method[c] = "GET" => WentOnToRateLimit(c)

\* the claim as stated
C27_StaticTokenCheck == StaticTokenCheck(ProtectionOn /\ TokenMissingOrDifferent)

\* ... with an empty header counted as a missing one
C27_StaticTokenCheckEmptyIsMissing ==
    StaticTokenCheck(ProtectionOn /\ (TokenMissingOrDifferent \/ TokenEmpty))

\* with protection on and the token "s" configured, a POST that carries
\* "s" has been admitted by the limiter, and so has a GET
C27_Witness ==
    /\ ProtectionOn
    /\ MapHas(csrfEnv, "CSRF_PROTECTION_TOKEN")
    /\ csrfEnv["CSRF_PROTECTION_TOKEN"] = <<"s">>
    /\ MapHas(request, "x-csrf-token") /\ request["x-csrf-token"] = <<"s">>
    /\ \E a, b \in Calls :
          /\ method[a] = "POST" /\ pc[a] = "done" /\ result[a].success
          /\ method[b] = "GET" /\ pc[b] = "done" /\ result[b].success

(***************************************************************************)
(* C28  The store is written only by a call that holds the slot of its     *)
(* key: every holder chained before it has resolved its gate, and its own  *)
(* gate is not resolved yet.  Such a call creates, replaces or increments  *)
(* the entry of its own key only, and deletes entries of other keys only   *)
(* in a sweep.  Outside a critical section the store is changed by         *)
(* __testResetRateLimit alone.                                             *)
(***************************************************************************)
TurnHasCome(c) == \A h \in Chain(prev[c]) : released[h]

HoldsSlot(c) == pc[c] = "awaiting" /\ TurnHasCome(c) /\ ~released[c]

\* Keys whose entry was created or given a new value by the step.
Written ==
    {k \in DOMAIN rateLimitStore' :
        ~MapHas(rateLimitStore, k) \/ rateLimitStore'[k] # rateLimitStore[k]}

Deleted == (DOMAIN rateLimitStore) \ (DOMAIN rateLimitStore')

WrittenInCriticalSection ==
    rateLimitStore' # rateLimitStore =>
        \/ ResetStep /\ rateLimitStore' = EmptyMap
        \/ \E c \in Calls :
              /\ HoldsSlot(c)
              /\ Decides(c)
              /\ Written \subseteq {identifier[c]}
              /\ Deleted # {} => CleanupDue(clock', lastCleanup)

C28_StoreWrittenInCriticalSection == [][WrittenInCriticalSection]_vars

\* a call that waited for its predecessor has incremented the entry of the
\* key, and a call has deleted the entry of another key in a sweep
C28_Witness ==
    \E a, b, c \in Calls :
        /\ prev[b] = a /\ Decided(b)
        /\ seen[b].count = 1 /\ result[b].success
        /\ result[b].remaining = config[b].maxRequests - 2
        /\ identifier[c] # identifier[a]
        /\ identifier[a] \in swept[c]

(***************************************************************************)
(* Calls of one identifier around the end of its window, with a quota of   *)
(* two and a window one millisecond longer than the cleanup interval.  The *)
(* window was created at StartTime by calls made before the run; the clock *)
(* never goes back, and the state is not reset.                            *)
(***************************************************************************)
BurstConfig == [maxRequests |-> 2, windowMs |-> CleanupIntervalMs + 1]

InitBurst == InitRouteWith({1, 2}, BurstConfig, {EmptyMap}, {EmptyMap})

NextBurst ==
    \/ \E c \in Calls : checkRateLimit(c, 1, siteConfig)
    \/ \E c \in Calls : holderResolves(c)
    \/ \E c \in Calls, d \in TickSteps : tryBody(c, d)
    \/ \E c \in Calls : finallyRelease(c)

SpecBurst == InitBurst /\ [][NextBurst]_vars

(***************************************************************************)
(* C29  With one config, a clock that never goes back and no reset, the    *)
(* calls of one key admitted inside a time interval no longer than         *)
(* windowMs are never more than 2 * maxRequests.                           *)
(***************************************************************************)
\* Calls admitted before the run, all at StartTime: the count the first
\* body of the run found.
PriorAdmitted == IF log = << >> THEN 0 ELSE seen[log[1]].count

\* Calls admitted at a time from t to t + windowMs.
AdmittedFrom(t) ==
    Cardinality({c \in Calls :
                    /\ Decided(c) /\ result[c].success
                    /\ t <= nowAt[c] /\ nowAt[c] <= t + siteConfig.windowMs})
    + (IF t = StartTime THEN PriorAdmitted ELSE 0)

\* An interval that holds the most admitted calls starts at one of them.
BurstStarts == {StartTime} \cup {nowAt[c] : c \in {x \in Calls : Decided(x)}}

C29_BurstBound ==
    \A t \in BurstStarts : AdmittedFrom(t) <= 2 * siteConfig.maxRequests

\* three calls are admitted within two milliseconds, more than the quota:
\* the last of the old window, and two of the window that follows it
C29_Witness ==
    \E t \in BurstStarts :
        /\ t > StartTime
        /\ AdmittedFrom(t) > siteConfig.maxRequests
        /\ \E a, b \in Calls :
              /\ Decided(a) /\ Decided(b)
              /\ window[a] = 0 /\ window[b] # 0
              /\ result[a].success /\ result[b].success
              /\ nowAt[a] >= t /\ nowAt[b] <= nowAt[a] + 1

(***************************************************************************)
(* C30  The reset time of a window is the time of the call that created it *)
(* plus windowMs, and no later call changes it: every call decided on the  *)
(* window, admitted or rejected, returns that reset time.                  *)
(***************************************************************************)
WindowReset(w) == nowAt[w] + config[w].windowMs

C30_ResetFixedAtCreation ==
    \A c \in Calls :
        Decided(c) =>
            /\ result[c].reset = WindowReset(window[c])
            /\ \A b \in Calls :
                  Decided(b) /\ window[b] = window[c] => result[b].reset = result[c].reset
            /\ MapHas(windowOwner, identifier[c]) /\ windowOwner[identifier[c]] = window[c]
                  => rateLimitStore[identifier[c]].resetTime = WindowReset(window[c])

\* a call is admitted on a window that an earlier call created at an
\* earlier time, and both return the reset time of the creation
C30_Witness ==
    \E b, c \in Calls :
        /\ b # c /\ Decided(b) /\ Decided(c)
        /\ window[c] = b
        /\ nowAt[c] > nowAt[b]
        /\ result[c].success
        /\ result[c].remaining = config[c].maxRequests - 2
        /\ result[c].reset = result[b].reset
        /\ result[c].reset < nowAt[c] + config[c].windowMs

(***************************************************************************)
(* Call sites with different valid configurations on one identifier.       *)
(* checkRateLimit takes its config per call (line 41) and the store is     *)
(* keyed by the identifier alone (line 6), so the entry one call site      *)
(* created is the entry the others count on.                               *)
(***************************************************************************)
SharedConfigs ==
    {[maxRequests |-> 1, windowMs |-> 1],
     [maxRequests |-> 2, windowMs |-> 2],
     [maxRequests |-> 3, windowMs |-> 1]}

InitShared == InitWith({[RATE_LIMIT_MODE |-> "", NODE_ENV |-> "test"]}, {RATE_LIMIT_CONFIG}, {EmptyMap})

NextShared ==
    \/ \E c \in Calls, cfg \in SharedConfigs : checkRateLimit(c, 1, cfg)
    \/ \E c \in Calls : holderResolves(c)
    \/ \E c \in Calls, d \in ShortTickSteps : tryBody(c, d)
    \/ \E c \in Calls : finallyRelease(c)

SpecShared == InitShared /\ [][NextShared]_vars

(***************************************************************************)
(* C31  Calls with different configurations on one key share one window.   *)
(* The reset time of the window is the creation time plus the windowMs of  *)
(* the call that created it, and a later call is decided on that window    *)
(* for as long as it has not expired, whatever its own windowMs.  A call   *)
(* that meets the window is admitted if and only if the number of calls    *)
(* admitted on the window before it is below its own maxRequests, and its  *)
(* remaining is never negative.                                            *)
(***************************************************************************)
\* the calls admitted on the window of call c before c was decided
SharedCount(c) ==
    Cardinality({b \in Admitted(window[c]) : Pos(b) < Pos(c)})

OneSharedWindow ==
    \A b, c \in Calls :
        /\ Decided(b) /\ Decided(c) /\ Pos(b) < Pos(c)
        /\ ~Expired(nowAt[c], [count |-> 0, resetTime |-> WindowReset(window[b])])
        => window[c] = window[b]

JudgedWithOwnQuota(c) ==
    IF window[c] = c
    THEN result[c] = [success |-> TRUE,
                      remaining |-> config[c].maxRequests - 1,
                      reset |-> nowAt[c] + config[c].windowMs]
    ELSE /\ result[c].success = (SharedCount(c) < config[c].maxRequests)
         /\ result[c].remaining =
                IF result[c].success
                THEN config[c].maxRequests - (SharedCount(c) + 1)
                ELSE 0
         /\ result[c].reset = WindowReset(window[c])

C31_SharedAccounting ==
    /\ OneSharedWindow
    /\ \A c \in Calls :
          Decided(c) => JudgedWithOwnQuota(c) /\ result[c].remaining >= 0

\* a call with quota 2 and a window of 2 ms creates the window; one
\* millisecond later a call with quota 1 and a window of 1 ms is rejected on
\* it; another millisecond later, when a window of the second call would be
\* over, a call with quota 3 is admitted on it with remaining 1
C31_Witness ==
    \E a, b, c \in Calls :
        /\ Decided(a) /\ Decided(b) /\ Decided(c)
        /\ config[a] = [maxRequests |-> 2, windowMs |-> 2]
        /\ config[b] = [maxRequests |-> 1, windowMs |-> 1]
        /\ config[c] = [maxRequests |-> 3, windowMs |-> 1]
        /\ window[a] = a /\ window[b] = a /\ window[c] = a
        /\ nowAt[b] = nowAt[a] + 1 /\ nowAt[c] = nowAt[a] + 2
        /\ ~result[b].success
        /\ result[c].success /\ result[c].remaining = 1
        /\ result[c].reset = nowAt[a] + 2

(***************************************************************************)
(* Callers only: the calls of Spec on every key, with every interleaving   *)
(* and every passage of time, and no use of the test hook.                 *)
(***************************************************************************)
NextSweep ==
    \/ \E c \in Calls, k \in Keys : checkRateLimit(c, k, siteConfig)
    \/ \E c \in Calls : holderResolves(c)
    \/ \E c \in Calls, d \in TickSteps : tryBody(c, d)
    \/ \E c \in Calls : finallyRelease(c)

SpecSweep == Init /\ [][NextSweep]_vars

(***************************************************************************)
(* C32  The cleanup is invisible to callers.  Under a clock that never     *)
(* goes back, every call returns the result that the limiter without       *)
(* lines 76-82 returns to it when the same calls are decided in the same   *)
(* order at the same times; the store differs from the store of that       *)
(* limiter only by entries that are over, and a cleanup deletes no entry   *)
(* whose reset time has not passed.                                        *)
(***************************************************************************)
\* the store of the limiter without the cleanup after the first i decisions
RECURSIVE NoSweepStore(_)
NoSweepStore(i) ==
    IF i = 0 THEN EmptyMap
    ELSE LET c == log[i]
         IN  Decide(NoSweepStore(i - 1), identifier[c], config[c], nowAt[c]).store

\* the result the limiter without the cleanup returns to call c
NoSweepResult(c) ==
    Decide(NoSweepStore(Pos(c) - 1), identifier[c], config[c], nowAt[c]).result

SameResultsWithoutSweep ==
    \A c \in Calls : Decided(c) => result[c] = NoSweepResult(c)

SweptWereOver ==
    \A c \in Calls :
        Decided(c) =>
            \A k \in swept[c] :
                /\ MapHas(NoSweepStore(Pos(c) - 1), k)
                /\ nowAt[c] > NoSweepStore(Pos(c) - 1)[k].resetTime

StoreDiffersByOverEntries ==
    LET whole == NoSweepStore(Len(log))
    IN  /\ DOMAIN rateLimitStore \subseteq DOMAIN whole
        /\ \A k \in DOMAIN whole :
              IF MapHas(rateLimitStore, k)
              THEN rateLimitStore[k] = whole[k]
              ELSE clock > whole[k].resetTime

C32_ReaperInvisible ==
    /\ SameResultsWithoutSweep
    /\ SweptWereOver
    /\ StoreDiffersByOverEntries

\* a call on one key ran the cleanup and deleted the entry of another key,
\* whose quota was used up; the next call on that key is admitted on a fresh
\* window, as it is when the entry is still there
C32_Witness ==
    \E a, b, c \in Calls :
        /\ Decided(a) /\ Decided(b) /\ Decided(c)
        /\ Pos(a) < Pos(b) /\ Pos(b) < Pos(c)
        /\ identifier[a] = identifier[c] /\ identifier[b] # identifier[a]
        /\ config[a].maxRequests = 1
        /\ identifier[a] \in swept[b]
        /\ MapHas(NoSweepStore(Pos(c) - 1), identifier[c])
        /\ window[c] = c
        /\ result[c].success

(***************************************************************************)
(* C33  With one valid config for every call, in every reachable state     *)
(* every entry of rateLimitStore has 1 <= count <= maxRequests.            *)
(***************************************************************************)
ValidConfig(cfg) == cfg.maxRequests >= 1 /\ cfg.windowMs >= 1

C33_CountWithinQuota ==
    /\ ValidConfig(siteConfig)
    /\ \A k \in DOMAIN rateLimitStore :
          /\ 1 <= rateLimitStore[k].count
          /\ rateLimitStore[k].count <= siteConfig.maxRequests

\* the entry of one key has counted up to a quota of 1 and a later call on
\* it has been rejected, while another key has an entry of its own
C33_Witness ==
    \E j, k \in DOMAIN rateLimitStore :
        /\ j # k
        /\ siteConfig.maxRequests = 1
        /\ rateLimitStore[j].count = 1 /\ rateLimitStore[k].count = 1
        /\ \E c \in Calls :
              Decided(c) /\ identifier[c] = j /\ ~result[c].success

(***************************************************************************)
(* C34  When __testResetRateLimit runs while callers are queued on a key,  *)
(* a call on that key made after the reset is decided after every caller   *)
(* on the key made before it: arrival order on a key holds across the      *)
(* reset.                                                                  *)
(***************************************************************************)
MadeAfterReset(c) == resetSeen /\ pc[c] # "idle" /\ c > resetCalls

DecidedInOrder(a, b) == Decided(b) => Decided(a) /\ Pos(a) < Pos(b)

C34_ArrivalOrderAcrossReset ==
    \A a, b \in Calls :
        /\ a < b /\ identifier[a] = identifier[b]
        /\ QueuedAtReset(a) /\ MadeAfterReset(b)
        => DecidedInOrder(a, b)

(***************************************************************************)
(* C34, amended.  Arrival order on a key holds among the calls made before *)
(* the reset and among the calls made after it.  A call made after the     *)
(* reset is decided after every earlier caller on the key that found no    *)
(* caller before it when it was made; it does not wait for the callers     *)
(* that were made before the reset behind another caller.                  *)
(***************************************************************************)
SameSideOfReset(a, b) == MadeBeforeReset(a) <=> MadeBeforeReset(b)

C34_ArrivalOrderOnEachSideOfReset ==
    \A a, b \in Calls :
        /\ a < b /\ identifier[a] = identifier[b]
        /\ SameSideOfReset(a, b) \/ prev[a] = 0
        => DecidedInOrder(a, b)

\* two calls are made on one key and the second waits for the first; the
\* reset runs; a third call is made on the key and is decided after the
\* first, whose body was scheduled, and before the second
C34_Witness ==
    \E a, b, c \in Calls :
        /\ a < b /\ b < c
        /\ identifier[a] = identifier[b] /\ identifier[b] = identifier[c]
        /\ QueuedAtReset(a) /\ QueuedAtReset(b) /\ MadeAfterReset(c)
        /\ Decided(a) /\ Decided(b) /\ Decided(c)
        /\ Pos(a) < Pos(c) /\ Pos(c) < Pos(b)

(***************************************************************************)
(* C35  A call whose outcome the external limiter determines (it returns a *)
(* result, or it fails in production and the call rethrows) leaves the     *)
(* state of the in-memory limiter as it was: no step of the call writes    *)
(* rateLimitStore, rateLimitLocks or lastCleanup, and the call never       *)
(* joins a chain, runs the cleanup or owns an entry.                       *)
(***************************************************************************)
\* a step of call c on lines 44-58
ExternalStep(c) ==
    \/ pc[c] = "idle" /\ pc'[c] = "upstash"
    \/ pc[c] = "upstash" /\ pc'[c] \in {"done", "threw"}

ExternalStepsKeepLocalState ==
    \A c \in Calls :
        ExternalStep(c) => UNCHANGED <<rateLimitStore, rateLimitLocks, lastCleanup>>

\* the external limiter has determined the outcome of call c
ExternallyDecided(c) ==
    c \in attempted /\ pc[c] \in {"done", "threw"} /\ ~RanLocally(c)

LeftNoTrace(c) ==
    /\ prev[c] = 0 /\ ~released[c]
    /\ LockTail(rateLimitLocks, identifier[c]) # c
    /\ \A k \in DOMAIN windowOwner : windowOwner[k] # c
    /\ swept[c] = {} /\ ~cleanupRan[c]

C35_ExternalOutcomeKeepsLocalState ==
    /\ [][ExternalStepsKeepLocalState]_vars
    /\ [](\A c \in Calls : ExternallyDecided(c) => LeftNoTrace(c))

\* outside production one call failed in the external limiter and was
\* counted in the store; another call on the same key got its result from
\* the external limiter afterwards, and the entry still counts one call
C35_Witness ==
    \E a, b \in Calls :
        /\ a < b /\ identifier[a] = identifier[b]
        /\ FellBack(a) /\ pc[a] = "done" /\ result[a].success
        /\ ExternallyDecided(b) /\ result[b] \in UpstashResults
        /\ MapHas(rateLimitStore, identifier[a])
        /\ rateLimitStore[identifier[a]].count = 1
        /\ lastCleanup = nowAt[a]

(***************************************************************************)
(* The business logic of the handlers, one awaited prisma operation at a   *)
(* time: each `await prisma...` is a point where the handlers of other     *)
(* requests run.  The window of the IP holds one request when the run      *)
(* starts, so that two requests of the run are admitted and a third is     *)
(* not.                                                                    *)
(***************************************************************************)
\* (a handler that goes on to the business logic whatever the decision)
ReachesBusinessLogicAlways(r) == TRUE

\* lines 217, 323, 402: `if (!rateLimitResult.success) return ...`
ReachesBusinessLogic(r) == r.success

\* the prisma operation a handler of method m awaits next, after the
\* operations in done: lines 241, 247, 275; 347, 371; 412, 416, 420
Queries(m, done) ==
    CASE m = "POST" ->
            IF done = << >> THEN {"findUnique"}
            ELSE IF done = <<"findUnique">> THEN {"update", "create"}
            ELSE {}
      [] m = "DELETE" ->
            IF done = << >> THEN {"findUnique"}
            ELSE IF done = <<"findUnique">> THEN {"update"}
            ELSE {}
      [] m = "GET" ->
            IF done = << >> THEN {"count"}
            ELSE IF done = <<"count">> THEN {"count"}
            ELSE IF done = <<"count", "count">> THEN {"findMany"}
            ELSE {}

\* the handler of request c awaits a prisma operation
query(c, op) ==
    /\ pc[c] = "done"
    /\ method[c] \in Methods
    /\ ReachesBusinessLogic(result[c])
    /\ op \in Queries(method[c], database[c])
    /\ database' = [database EXCEPT ![c] = Append(database[c], op)]
    /\ UNCHANGED <<csrfEnv, method, response, request, clientIP, clock, env, siteConfig,
                   rateLimitStore, rateLimitLocks, lastCleanup, pc, identifier,
                   config, prev, released, microtasks, result, history, resetFlags>>

\* the operations a handler of method m has awaited when it returns the
\* response of an outcome; it throws at any point of the business logic
Ran(m, outcome, done) ==
    CASE outcome = "invalid" -> done = << >>
      [] outcome = "resubscribed" -> done = <<"findUnique", "update">>
      [] outcome = "conflict" -> done = <<"findUnique">>
      [] outcome = "created" -> done = <<"findUnique", "create">>
      [] outcome = "notfound" -> done = <<"findUnique">>
      [] outcome = "already" -> done = <<"findUnique">>
      [] outcome = "unsubscribed" -> done = <<"findUnique", "update">>
      [] outcome = "stats" -> done = <<"count", "count", "findMany">>
      [] outcome = "threw" -> TRUE
      [] outcome = "limited" -> TRUE

\* the handler of request c returns
answer(c, outcome) ==
    /\ method[c] \in Methods
    /\ Ran(method[c], outcome, database[c])
    /\ respond(c, outcome)

InitBusiness == InitRouteWith({1}, RATE_LIMIT_CONFIG, {EmptyMap}, {EmptyMap})

NextBusiness ==
    \/ \E c \in Calls : POST(c, 1)
    \/ \E c \in Calls : DELETE(c, 1)
    \/ \E c \in Calls : GET(c, 1)
    \/ \E c \in Calls : holderResolves(c)
    \/ \E c \in Calls : tryBody(c, 0)
    \/ \E c \in Calls : finallyRelease(c)
    \/ \E c \in Calls, op \in {"findUnique", "update", "create", "count", "findMany"} :
          query(c, op)
    \/ \E c \in Calls, outcome \in AllOutcomes : answer(c, outcome)

SpecBusiness == InitBusiness /\ [][NextBusiness]_vars

(***************************************************************************)
(* C36  A request the limiter rejects never reaches the business logic:    *)
(* in POST, DELETE and GET every prisma operation of a request follows the *)
(* decision of the limiter for that request, and a request whose decision  *)
(* is success = false is answered 429 without any prisma operation.        *)
(***************************************************************************)
\* request c awaits a prisma operation in this step
AwaitsQuery(c) == database'[c] # database[c]

QueriesFollowAdmission ==
    \A c \in Calls :
        AwaitsQuery(c) => pc[c] = "done" /\ result[c] # NoResult /\ result[c].success

LimitedHasNoQueries ==
    \A c \in Calls :
        /\ database[c] # << >> => pc[c] = "done" /\ result[c].success
        /\ Decided(c) /\ ~result[c].success => database[c] = << >>

C36_LimitedNeverReachesDatabase ==
    /\ [][QueriesFollowAdmission]_vars
    /\ []LimitedHasNoQueries
    /\ [](response.status = 429 => database[response.call] = << >>)

\* the fourth request of the window has been answered 429 without a prisma
\* operation, while the handler of an admitted POST has created the
\* subscriber and the handler of an admitted GET is between two queries
C36_Witness ==
    \E a, b \in Calls :
        /\ response.status = 429 /\ response.call \notin {a, b}
        /\ database[response.call] = << >>
        /\ database[a] = <<"findUnique", "create">>
        /\ method[b] = "GET" /\ database[b] = <<"count">>

(***************************************************************************)
(* C37  POST, DELETE and GET share one quota per client IP.  Every handler *)
(* calls the limiter with the key of the IP and with RATE_LIMIT_CONFIG     *)
(* (3 requests per hour), so that in one window at most 3 requests of the  *)
(* IP, over the three methods together, are admitted; and a request that   *)
(* is answered 400 has been counted.                                       *)
(***************************************************************************)
\* requests of the IP the limiter has admitted in the window, those made
\* before the run included
PassedInWindow ==
    PriorAdmitted + Cardinality({c \in Calls : Decided(c) /\ result[c].success})

SameKeyAndConfig ==
    \A c \in Calls :
        pc[c] \in {"awaiting", "finally", "done"} =>
            identifier[c] = 1 /\ config[c] = RATE_LIMIT_CONFIG

InvalidIsCounted ==
    response.status = 400 =>
        /\ result[response.call].success
        /\ result[response.call].remaining =
              RATE_LIMIT_CONFIG.maxRequests - (CountedBefore + 1)
        /\ rateLimitStore[1].count >= CountedBefore + 1

C37_OneQuotaForAllMethods ==
    /\ SameKeyAndConfig
    /\ PassedInWindow <= RATE_LIMIT_CONFIG.maxRequests
    /\ log # << >> => rateLimitStore[1].count = PassedInWindow
    /\ InvalidIsCounted

\* the window held one request; a POST was admitted as the second and was
\* answered 400, a GET was admitted as the third, and a DELETE was rejected
C37_Witness ==
    \E b, c \in Calls :
        /\ response.status = 400 /\ response.method = "POST"
        /\ response.call \notin {b, c}
        /\ CountedBefore = 1
        /\ method[b] = "GET" /\ Decided(b)
        /\ result[b].success /\ result[b].remaining = 0
        /\ method[c] = "DELETE" /\ Decided(c) /\ ~result[c].success
        /\ PassedInWindow = 3

(***************************************************************************)
(* C38  A POST or DELETE request that the static-token check answers 403   *)
(* consumes no quota: the check runs before the limiter, the step that     *)
(* answers 403 changes neither rateLimitStore nor rateLimitLocks nor       *)
(* lastCleanup, the request never enters the limiter, and the entry of the *)
(* IP counts the admitted requests only, so that the remaining quota of    *)
(* the caller is what it was.                                              *)
(***************************************************************************)
\* the handler of request c returns the response of checkCSRF in this step
Refuses(c) == pc[c] = "idle" /\ pc'[c] = "responded"

RefusalKeepsLimiterState ==
    \A c \in Calls :
        Refuses(c) =>
            /\ response'.status = 403 /\ response'.call = c
            /\ UNCHANGED <<rateLimitStore, rateLimitLocks, lastCleanup, microtasks>>

RefusedNeverEntersLimiter ==
    \A c \in Calls :
        pc[c] = "responded" =>
            /\ identifier[c] = 0 /\ config[c] = NoConfig /\ result[c] = NoResult
            /\ prev[c] = 0 /\ ~RanLocally(c)
            /\ \A k \in DOMAIN rateLimitLocks : rateLimitLocks[k] # c

\* requests the limiter has admitted up to and including request c
AdmittedUntil(c) ==
    Cardinality({b \in Calls : Decided(b) /\ result[b].success /\ Pos(b) <= Pos(c)})

QuotaCountsAdmittedOnly ==
    /\ \A k \in DOMAIN rateLimitStore :
          rateLimitStore[k].count =
              Cardinality({c \in Calls : Decided(c) /\ result[c].success})
    /\ \A c \in Calls :
          Decided(c) /\ result[c].success =>
              result[c].remaining = RATE_LIMIT_CONFIG.maxRequests - AdmittedUntil(c)

C38_RefusedConsumesNoQuota ==
    /\ [][RefusalKeepsLimiterState]_vars
    /\ []RefusedNeverEntersLimiter
    /\ []QuotaCountsAdmittedOnly

\* a GET is admitted with remaining 2, a POST of the same IP is then
\* answered 403, and the GET that follows is admitted with remaining 1
C38_Witness ==
    \E a, b, c \in Calls :
        /\ a < b /\ b < c
        /\ method[a] = "GET" /\ Decided(a) /\ result[a].remaining = 2
        /\ pc[b] = "responded" /\ response.call = b /\ response.method = "POST"
        /\ seen[c].count = 1
        /\ method[c] = "GET" /\ Decided(c) /\ result[c].remaining = 1

====
